---------------------------- MODULE Spec2Model ----------------------------
(***************************************************************************)
(* A model of the blogging assistant's Ghost "lexical" document builder,   *)
(* AdminPlugin._content_to_lexical (src/plugins/adminplugin.py).           *)
(*                                                                         *)
(* Python strings are sequences of one-character strings, so that strip,   *)
(* split and startswith are computed character by character.               *)
(* Python values are tagged records: [type |-> "str", val |-> chars],      *)
(* [type |-> "NoneType"], and [type |-> "dict", val |-> items] where       *)
(* items is the insertion-ordered sequence of <<key, value>> pairs.        *)
(***************************************************************************)
EXTENDS Integers, Sequences, FiniteSets, TLC

VARIABLES
    content,    \* the argument _content_to_lexical is called with
    pc,         \* "call": the call is pending; "done": it has finished
    outcome,    \* "none" | "returned" | "raised"
    lexical,    \* the returned document (the dict that json.dumps serializes)
    origin,     \* for each child of the root, the index of the block it came from
    lexical_str,    \* the string the call returns, json.dumps(lexical)
    rt_pc,          \* the caller that parses the string again: "idle" | "parsed" | "dumped"
    reparsed,       \* json.loads(lexical_str)
    reserialized,   \* json.dumps(reparsed)
    sm_file,        \* the state file: [exists |-> BOOLEAN, text |-> characters]
    sm_state,       \* StateManager.state, the in-memory state
    sm_now,         \* the clock that datetime.now() reads
    sm_last,        \* the last StateManager call: [op |-> name, raised |-> BOOLEAN]
    sm_ret,         \* what the last get_chat_history or get_topics returned
    sm_prev,        \* the in-memory state before the last call
    sm_added,       \* the <<role, content>> pairs loaded, or added since the last clear
    pd_pc,          \* post_draft: "idle" | "call" | "done"
    pd_args,        \* the arguments of post_draft: [title, content]
    pd_env,         \* what post_draft meets: [api_key, http]
    pd_out,         \* how post_draft ended: [raised, result, sent]
    ce_pc,          \* execute_code: "idle" | "call" | "submit" | "poll" | "done"
    ce_code,        \* request.source_code
    ce_judge,       \* the submission at Judge0: [id, stdout]
    ce_polls,       \* the status requests answered with status 1 or 2
    ce_sent,        \* the requests sent to Judge0, in order
    ce_seen,        \* the status id of the last status response, 0 before any
    ce_out,         \* how execute_code ended: [raised, result]
    et_pc,          \* extract_topics: "idle" | "call" | "done"
    et_content,     \* the argument of extract_topics
    et_topics,      \* the list extract_topics returns
    et_origin,      \* for each returned topic, the index of the line it came from
    ps_pc,          \* process_stream: "idle" | "call" | "done"
    ps_chat,        \* chat.messages: a sequence of [role, content]
    ps_stream       \* the content of the chunks the stream yields

lexvars == <<content, pc, outcome, lexical, origin, lexical_str>>

rtvars == <<rt_pc, reparsed, reserialized>>

smvars == <<sm_file, sm_state, sm_now, sm_last, sm_ret, sm_prev, sm_added>>

pdvars == <<pd_pc, pd_args, pd_env, pd_out>>

cevars == <<ce_pc, ce_code, ce_judge, ce_polls, ce_sent, ce_seen, ce_out>>

clivars == <<et_pc, et_content, et_topics, et_origin, ps_pc, ps_chat, ps_stream>>

vars == <<lexvars, rtvars, smvars, pdvars, cevars, clivars>>

----------------------------------------------------------------------------
(* Bounds of the model *)

\* the longest plain input string that is enumerated exhaustively
MaxLen == 6
\* the longest run of leading '#' of the enumerated heading inputs
MaxHashes == 7
\* the longest text that follows the run of '#' in a heading input
MaxTail == 4
\* the largest number of sample blocks joined into one document
MaxBlocks == 3
\* the longest string held by the 'content' key of an enumerated mapping
MaxDictLen == 3
\* the longest input string of the calls whose result is parsed again
MaxJsonLen == 3
\* the number of StateManager calls that read the clock
MaxClock == 3

\* the status requests of one execute_code call that find the submission
\* queued or processing
MaxPolls == 2
\* the longest text extract_topics is called with
MaxTopicText == 5
\* the clock reads of one interactive session
MaxStreamClock == 7

----------------------------------------------------------------------------
(* Characters and strings *)

NL == "\n"
HASH == "#"

\* The characters of the enumerated inputs: a letter, the heading marker
\* and the two whitespace characters the code distinguishes.
Alphabet == {"a", HASH, " ", NL}

\* str.strip() and str.split() treat these as whitespace.
Whitespace == {" ", NL, "\t", "\r"}

Strings(n) == UNION {[1..k -> Alphabet] : k \in 0..n}

Hashes(k) == [i \in 1..k |-> HASH]

Drop(s, n) == SubSeq(s, n + 1, Len(s))

Take(s, n) == SubSeq(s, 1, n)

\* s.startswith(p)
StartsWith(s, p) == Len(s) >= Len(p) /\ Take(s, Len(p)) = p

\* the index of the first character of s outside cs, Len(s)+1 if there is none
FirstOutside(s, cs) ==
    IF \A i \in 1..Len(s) : s[i] \in cs
    THEN Len(s) + 1
    ELSE CHOOSE i \in 1..Len(s) : s[i] \notin cs /\ \A j \in 1..(i - 1) : s[j] \in cs

\* the index of the last character of s outside cs, 0 if there is none
LastOutside(s, cs) ==
    IF \A i \in 1..Len(s) : s[i] \in cs
    THEN 0
    ELSE CHOOSE i \in 1..Len(s) : s[i] \notin cs /\ \A j \in (i + 1)..Len(s) : s[j] \in cs

\* s.lstrip(chars)
LStripChars(s, cs) == Drop(s, FirstOutside(s, cs) - 1)

\* s.strip()
Strip(s) == SubSeq(s, FirstOutside(s, Whitespace), LastOutside(s, Whitespace))

\* the index at which the first occurrence of sep in s starts, 0 if there is none
Find(s, sep) ==
    LET hits == {i \in 1..(Len(s) - Len(sep) + 1) : SubSeq(s, i, i + Len(sep) - 1) = sep}
    IN  IF hits = {} THEN 0 ELSE CHOOSE i \in hits : \A j \in hits : i <= j

\* s.split(sep, maxsplit), maxsplit = -1 for no limit
RECURSIVE SplitSep(_, _, _)
SplitSep(s, sep, maxsplit) ==
    LET i == Find(s, sep)
    IN  IF maxsplit = 0 \/ i = 0
        THEN <<s>>
        ELSE <<Take(s, i - 1)>> \o SplitSep(Drop(s, i + Len(sep) - 1), sep, maxsplit - 1)

\* the index of the first character of s inside cs, Len(s)+1 if there is none
FirstInside(s, cs) ==
    IF \A i \in 1..Len(s) : s[i] \notin cs
    THEN Len(s) + 1
    ELSE CHOOSE i \in 1..Len(s) : s[i] \in cs /\ \A j \in 1..(i - 1) : s[j] \notin cs

\* s.split(): the maximal runs of non-whitespace characters
RECURSIVE SplitWhitespace(_)
SplitWhitespace(s) ==
    LET t == LStripChars(s, Whitespace)
        e == FirstInside(t, Whitespace)
    IN  IF t = <<>> THEN <<>>
        ELSE <<Take(t, e - 1)>> \o SplitWhitespace(Drop(t, e - 1))

\* the decimal digits of n >= 0, as an f-string formats an int
RECURSIVE Decimal(_)
Decimal(n) ==
    LET digit == <<"0", "1", "2", "3", "4", "5", "6", "7", "8", "9">>[(n % 10) + 1]
    IN  IF n < 10 THEN <<digit>> ELSE Append(Decimal(n \div 10), digit)

----------------------------------------------------------------------------
(* Python values *)

PyString(s) == [type |-> "str", val |-> s]

PyNone == [type |-> "NoneType"]

PyDict(items) == [type |-> "dict", val |-> items]

\* isinstance(v, dict)
IsDict(v) == v.type = "dict"

\* key in d
HasKey(d, key) == \E i \in 1..Len(d.val) : d.val[i][1] = key

\* d[key]
GetItem(d, key) == d.val[CHOOSE i \in 1..Len(d.val) : d.val[i][1] = key][2]

KeyContent == <<"c", "o", "n", "t", "e", "n", "t">>

KeyTopic == <<"t", "o", "p", "i", "c">>

\* the body of repr(s) for a str: a line break is written as \n; the other
\* characters of the model are printable and written as they are
RECURSIVE ReprChars(_)
ReprChars(s) ==
    IF s = <<>> THEN <<>>
    ELSE (IF Head(s) = NL THEN <<"\\", "n">> ELSE <<Head(s)>>) \o ReprChars(Tail(s))

RECURSIVE Repr(_)
RECURSIVE ReprItems(_)
\* repr(v)
Repr(v) ==
    CASE v.type = "str" -> <<"'">> \o ReprChars(v.val) \o <<"'">>
      [] v.type = "NoneType" -> <<"N", "o", "n", "e">>
      [] v.type = "dict" -> <<"{">> \o ReprItems(v.val) \o <<"}">>

ReprItems(items) ==
    IF items = <<>> THEN <<>>
    ELSE Repr(PyString(items[1][1])) \o <<":", " ">> \o Repr(items[1][2])
         \o (IF Len(items) > 1 THEN <<",", " ">> ELSE <<>>) \o ReprItems(Tail(items))

\* str(v)
PyStr(v) == IF v.type = "str" THEN v.val ELSE Repr(v)

PyInt(n) == [type |-> "int", val |-> n]

PyList(items) == [type |-> "list", val |-> items]

----------------------------------------------------------------------------
(* json.dumps and json.loads *)

QUOTE == "\""
BACKSLASH == "\\"

\* the one character of the model outside ASCII, U+00E9
EACUTE == "U+00E9"

\* a slip: a line break is written as it is
EscapeCharRawNewline(c) ==
    CASE c = QUOTE -> <<BACKSLASH, QUOTE>>
      [] c = BACKSLASH -> <<BACKSLASH, BACKSLASH>>
      [] OTHER -> <<c>>

\* what json.dumps writes for one character of a string (ensure_ascii)
EscapeChar(c) ==
    CASE c = QUOTE -> <<BACKSLASH, QUOTE>>
      [] c = BACKSLASH -> <<BACKSLASH, BACKSLASH>>
      [] c = NL -> <<BACKSLASH, "n">>
      [] c = "\r" -> <<BACKSLASH, "r">>
      [] c = "\t" -> <<BACKSLASH, "t">>
      [] c = EACUTE -> <<BACKSLASH, "u", "0", "0", "e", "9">>
      [] OTHER -> <<c>>

RECURSIVE DumpsChars(_)
DumpsChars(s) ==
    IF s = <<>> THEN <<>> ELSE EscapeChar(Head(s)) \o DumpsChars(Tail(s))

\* a str as a JSON string
DumpsString(s) == <<QUOTE>> \o DumpsChars(s) \o <<QUOTE>>

\* the line break and the indentation json.dump(indent=n) writes at nesting
\* depth d; nothing when indent is None (n = -1)
RECURSIVE Spaces(_)
Spaces(n) == IF n <= 0 THEN <<>> ELSE <<" ">> \o Spaces(n - 1)

NewlineIndent(indent, depth) ==
    IF indent < 0 THEN <<>> ELSE <<NL>> \o Spaces(indent * depth)

\* the separator between the items of a list or a dict
ItemSeparator(indent) == IF indent < 0 THEN <<",", " ">> ELSE <<",">>

RECURSIVE DumpsValue(_, _, _)
RECURSIVE DumpsItems(_, _, _, _)
\* json.dumps(v, indent=indent) at nesting depth d
DumpsValue(v, indent, depth) ==
    CASE v.type = "str" -> DumpsString(v.val)
      [] v.type = "int" -> Decimal(v.val)
      [] v.type = "NoneType" -> <<"n", "u", "l", "l">>
      [] v.type = "list" ->
            IF v.val = <<>> THEN <<"[", "]">>
            ELSE <<"[">> \o DumpsItems(v.val, FALSE, indent, depth + 1)
                 \o NewlineIndent(indent, depth) \o <<"]">>
      [] v.type = "dict" ->
            IF v.val = <<>> THEN <<"{", "}">>
            ELSE <<"{">> \o DumpsItems(v.val, TRUE, indent, depth + 1)
                 \o NewlineIndent(indent, depth) \o <<"}">>

\* the items of a list, or of a dict (keyed) in insertion order
DumpsItems(items, keyed, indent, depth) ==
    IF items = <<>> THEN <<>>
    ELSE NewlineIndent(indent, depth)
         \o (IF keyed
             THEN DumpsString(items[1][1]) \o <<":", " ">> \o DumpsValue(items[1][2], indent, depth)
             ELSE DumpsValue(items[1], indent, depth))
         \o (IF Len(items) > 1 THEN ItemSeparator(indent) ELSE <<>>)
         \o DumpsItems(Tail(items), keyed, indent, depth)

\* json.dumps(v)
Dumps(v) == DumpsValue(v, -1, 0)

\* the result of a parse that failed (json.JSONDecodeError)
ParseError == [ok |-> FALSE, v |-> PyNone, next |-> 0]

Parsed(v, next) == [ok |-> TRUE, v |-> v, next |-> next]

JsonWhitespace == {" ", NL, "\t", "\r"}

Digits == {"0", "1", "2", "3", "4", "5", "6", "7", "8", "9"}

DigitValue(c) == CHOOSE n \in 0..9 : <<"0", "1", "2", "3", "4", "5", "6", "7", "8", "9">>[n + 1] = c

\* the first index of s from i on that holds no JSON whitespace
RECURSIVE SkipWhitespace(_, _)
SkipWhitespace(s, i) ==
    IF i <= Len(s) /\ s[i] \in JsonWhitespace THEN SkipWhitespace(s, i + 1) ELSE i

\* the character an escape \uXXXX stands for
UnicodeChar(hex) == IF hex = <<"0", "0", "e", "9">> THEN EACUTE ELSE "?"

\* the rest of a JSON string from index i on, acc being the characters read
RECURSIVE ParseString(_, _, _)
ParseString(s, i, acc) ==
    IF i > Len(s) THEN ParseError
    ELSE IF s[i] = QUOTE THEN Parsed(PyString(acc), i + 1)
    ELSE IF s[i] \in {NL, "\r", "\t"} THEN ParseError
    ELSE IF s[i] = BACKSLASH
    THEN IF i + 1 > Len(s) THEN ParseError
         ELSE IF s[i + 1] \in {QUOTE, BACKSLASH, "/"} THEN ParseString(s, i + 2, Append(acc, s[i + 1]))
         ELSE IF s[i + 1] = "n" THEN ParseString(s, i + 2, Append(acc, NL))
         ELSE IF s[i + 1] = "r" THEN ParseString(s, i + 2, Append(acc, "\r"))
         ELSE IF s[i + 1] = "t" THEN ParseString(s, i + 2, Append(acc, "\t"))
         ELSE IF s[i + 1] = "u" /\ i + 5 <= Len(s)
         THEN ParseString(s, i + 6, Append(acc, UnicodeChar(SubSeq(s, i + 2, i + 5))))
         ELSE ParseError
    ELSE ParseString(s, i + 1, Append(acc, s[i]))

\* the digits of an integer from index i on, acc being its value so far
RECURSIVE ParseNumber(_, _, _)
ParseNumber(s, i, acc) ==
    IF i <= Len(s) /\ s[i] \in Digits
    THEN ParseNumber(s, i + 1, 10 * acc + DigitValue(s[i]))
    ELSE Parsed(PyInt(acc), i)

\* d[key] = v on the items of a dict: a key that is there keeps its place
DictSet(items, key, v) ==
    IF \E k \in 1..Len(items) : items[k][1] = key
    THEN [k \in 1..Len(items) |-> IF items[k][1] = key THEN <<key, v>> ELSE items[k]]
    ELSE Append(items, <<key, v>>)

RECURSIVE ParseValue(_, _)
RECURSIVE ParseArray(_, _, _)
RECURSIVE ParseObject(_, _, _)
\* the JSON value that starts at index i of s
ParseValue(s, i) ==
    IF i > Len(s) THEN ParseError
    ELSE IF s[i] = QUOTE THEN ParseString(s, i + 1, <<>>)
    ELSE IF s[i] \in Digits THEN ParseNumber(s, i, 0)
    ELSE IF s[i] = "n"
    THEN IF i + 3 <= Len(s) /\ SubSeq(s, i, i + 3) = <<"n", "u", "l", "l">>
         THEN Parsed(PyNone, i + 4) ELSE ParseError
    ELSE IF s[i] = "["
    THEN LET j == SkipWhitespace(s, i + 1)
         IN  IF j <= Len(s) /\ s[j] = "]" THEN Parsed(PyList(<<>>), j + 1)
             ELSE ParseArray(s, j, <<>>)
    ELSE IF s[i] = "{"
    THEN LET j == SkipWhitespace(s, i + 1)
         IN  IF j <= Len(s) /\ s[j] = "}" THEN Parsed(PyDict(<<>>), j + 1)
             ELSE ParseObject(s, j, <<>>)
    ELSE ParseError

\* the elements of an array from index i on, acc being the elements read
ParseArray(s, i, acc) ==
    LET r == ParseValue(s, i)
        j == SkipWhitespace(s, r.next)
    IN  IF ~r.ok \/ j > Len(s) THEN ParseError
        ELSE IF s[j] = "]" THEN Parsed(PyList(Append(acc, r.v)), j + 1)
        ELSE IF s[j] = "," THEN ParseArray(s, SkipWhitespace(s, j + 1), Append(acc, r.v))
        ELSE ParseError

\* the members of an object from index i on, acc being the items read
ParseObject(s, i, acc) ==
    IF i > Len(s) \/ s[i] # QUOTE THEN ParseError
    ELSE LET k == ParseString(s, i + 1, <<>>)
             c == SkipWhitespace(s, k.next)
         IN  IF ~k.ok \/ c > Len(s) \/ s[c] # ":" THEN ParseError
             ELSE LET r == ParseValue(s, SkipWhitespace(s, c + 1))
                      j == SkipWhitespace(s, r.next)
                      items == DictSet(acc, k.v.val, r.v)
                  IN  IF ~r.ok \/ j > Len(s) THEN ParseError
                      ELSE IF s[j] = "}" THEN Parsed(PyDict(items), j + 1)
                      ELSE IF s[j] = "," THEN ParseObject(s, SkipWhitespace(s, j + 1), items)
                      ELSE ParseError

\* json.loads(s): ok is FALSE when it raises json.JSONDecodeError
Loads(s) ==
    LET r == ParseValue(s, SkipWhitespace(s, 1))
    IN  IF r.ok /\ SkipWhitespace(s, r.next) = Len(s) + 1 THEN r ELSE ParseError

----------------------------------------------------------------------------
(* AdminPlugin._content_to_lexical *)

\* a slip: the value of 'topic' is taken when the mapping has that key
UnwrapTopicFirst(c) ==
    IF IsDict(c)
    THEN IF HasKey(c, KeyTopic) THEN GetItem(c, KeyTopic)
         ELSE IF HasKey(c, KeyContent) THEN GetItem(c, KeyContent)
         ELSE c
    ELSE c

\* "Handle potential dictionary input": the value of 'content' when the
\* argument is a dict that has the key, the argument itself otherwise
Unwrap(c) ==
    IF IsDict(c)
    THEN IF HasKey(c, KeyContent) THEN GetItem(c, KeyContent)
         ELSE IF HasKey(c, KeyTopic) /\ HasKey(c, KeyContent) THEN GetItem(c, KeyContent)
         ELSE c
    ELSE c

\* content = str(content).strip()
Coerce(c) == Strip(PyStr(Unwrap(c)))

\* a slip: the text is split on single line breaks
ParagraphsSplitLines(c) == SplitSep(Coerce(c), <<NL>>, -1)

\* a slip: the text is split at its first delimiter only
ParagraphsSplitOnce(c) == SplitSep(Coerce(c), <<NL, NL>>, 1)

\* paragraphs = content.split('\n\n')
Paragraphs(c) == SplitSep(Coerce(c), <<NL, NL>>, -1)

\* a text node
TextRun(text) ==
    [type |-> "text", text |-> text, format |-> 0, detail |-> 0,
     mode |-> "normal", style |-> ""]

HeadingNode(level, text) ==
    [type |-> "heading", tag |-> <<"h">> \o Decimal(level), format |-> "",
     indent |-> 0, version |-> 1, children |-> <<TextRun(text)>>]

ParagraphNode(text) ==
    [type |-> "paragraph", format |-> "", indent |-> 0, version |-> 1,
     children |-> <<TextRun(text)>>]

\* parts = para.split('\n', 1)
Parts(para) == SplitSep(para, <<NL>>, 1)

\* a slip: the tokens are taken after the '#' characters are stripped
HeaderTokensAfterHashes(header) == SplitWhitespace(LStripChars(header, {HASH}))

\* header.split()
HeaderTokens(header) == SplitWhitespace(header)

\* header.split()[0] raises IndexError when header.split() is empty
HeaderRaises(header) == HeaderTokens(header) = <<>>

\* level = len(header.split()[0])
HeaderLevel(header) == Len(HeaderTokens(header)[1])

\* a slip: the text is not stripped of whitespace
HeaderTextNoStrip(header) == LStripChars(header, {HASH})

\* text = header.lstrip('#').strip()
HeaderText(header) == Strip(LStripChars(header, {HASH}))

\* whether the body of the loop raises for the stripped block para
BlockRaises(para) ==
    para # <<>> /\ StartsWith(para, <<HASH>>) /\ HeaderRaises(Parts(para)[1])

\* a slip: a block is a heading when it holds a '#' anywhere
BlockNodesAnyHash(para) ==
    IF para = <<>> THEN <<>>
    ELSE IF \E i \in 1..Len(para) : para[i] = HASH
    THEN LET parts == Parts(para)
             header == parts[1]
         IN  <<HeadingNode(HeaderLevel(header), HeaderText(header))>>
             \o (IF Len(parts) > 1 /\ Strip(parts[2]) # <<>>
                 THEN <<ParagraphNode(Strip(parts[2]))>>
                 ELSE <<>>)
    ELSE <<ParagraphNode(para)>>

\* a slip: the remainder of a heading block is not stripped
BlockNodesRawRest(para) ==
    IF para = <<>> THEN <<>>
    ELSE IF StartsWith(para, <<HASH>>)
    THEN LET parts == Parts(para)
             header == parts[1]
         IN  <<HeadingNode(HeaderLevel(header), HeaderText(header))>>
             \o (IF Len(parts) > 1 /\ Strip(parts[2]) # <<>>
                 THEN <<ParagraphNode(parts[2])>>
                 ELSE <<>>)
    ELSE <<ParagraphNode(para)>>

\* a slip: a block that is empty after stripping is not skipped
BlockNodesNoSkip(para) ==
    IF StartsWith(para, <<HASH>>)
    THEN LET parts == Parts(para)
             header == parts[1]
         IN  <<HeadingNode(HeaderLevel(header), HeaderText(header))>>
             \o (IF Len(parts) > 1 /\ Strip(parts[2]) # <<>>
                 THEN <<ParagraphNode(Strip(parts[2]))>>
                 ELSE <<>>)
    ELSE <<ParagraphNode(para)>>

\* the nodes the body of the loop appends for the stripped block para
BlockNodes(para) ==
    IF para = <<>> THEN <<>>
    ELSE IF StartsWith(para, <<HASH>>)
    THEN LET parts == Parts(para)
             header == parts[1]
         IN  <<HeadingNode(HeaderLevel(header), HeaderText(header))>>
             \o (IF Len(parts) > 1 /\ Strip(parts[2]) # <<>>
                 THEN <<ParagraphNode(Strip(parts[2]))>>
                 ELSE <<>>)
    ELSE <<ParagraphNode(para)>>

\* a slip: the nodes are put in front of the earlier ones
PrependNodes(entries, nodes, i) ==
    [k \in 1..Len(nodes) |-> [node |-> nodes[k], block |-> i]] \o entries

\* children.append(node), with the index of the block the node came from
AppendNodes(entries, nodes, i) ==
    entries \o [k \in 1..Len(nodes) |-> [node |-> nodes[k], block |-> i]]

\* a slip: the blocks are not stripped
RECURSIVE EntriesNoStrip(_, _)
EntriesNoStrip(paragraphs, n) ==
    IF n = 0 THEN <<>>
    ELSE AppendNodes(EntriesNoStrip(paragraphs, n - 1), BlockNodes(paragraphs[n]), n)

\* the loop over enumerate(paragraphs), up to and including block n
RECURSIVE Entries(_, _)
Entries(paragraphs, n) ==
    IF n = 0 THEN <<>>
    ELSE AppendNodes(Entries(paragraphs, n - 1), BlockNodes(Strip(paragraphs[n])), n)

\* whether the call raises an exception
Raises(c) ==
    LET paragraphs == Paragraphs(c)
    IN  \E i \in 1..Len(paragraphs) : BlockRaises(Strip(paragraphs[i]))

\* the dict that is serialized and returned
Lexical(children) ==
    [root |-> [type |-> "root", format |-> "", indent |-> 0, version |-> 1,
               children |-> children]]

\* the characters of the string literals of the dicts built in the code
Chars(w) ==
    CASE w = "type" -> <<"t", "y", "p", "e">>
      [] w = "text" -> <<"t", "e", "x", "t">>
      [] w = "format" -> <<"f", "o", "r", "m", "a", "t">>
      [] w = "detail" -> <<"d", "e", "t", "a", "i", "l">>
      [] w = "mode" -> <<"m", "o", "d", "e">>
      [] w = "style" -> <<"s", "t", "y", "l", "e">>
      [] w = "normal" -> <<"n", "o", "r", "m", "a", "l">>
      [] w = "heading" -> <<"h", "e", "a", "d", "i", "n", "g">>
      [] w = "paragraph" -> <<"p", "a", "r", "a", "g", "r", "a", "p", "h">>
      [] w = "root" -> <<"r", "o", "o", "t">>
      [] w = "tag" -> <<"t", "a", "g">>
      [] w = "indent" -> <<"i", "n", "d", "e", "n", "t">>
      [] w = "version" -> <<"v", "e", "r", "s", "i", "o", "n">>
      [] w = "children" -> <<"c", "h", "i", "l", "d", "r", "e", "n">>
      [] w = "" -> <<>>
      [] w = "chat_history" -> <<"c", "h", "a", "t", "_", "h", "i", "s", "t", "o", "r", "y">>
      [] w = "topics" -> <<"t", "o", "p", "i", "c", "s">>
      [] w = "last_updated" -> <<"l", "a", "s", "t", "_", "u", "p", "d", "a", "t", "e", "d">>
      [] w = "role" -> <<"r", "o", "l", "e">>
      [] w = "content" -> <<"c", "o", "n", "t", "e", "n", "t">>
      [] w = "timestamp" -> <<"t", "i", "m", "e", "s", "t", "a", "m", "p">>
      [] w = "user" -> <<"u", "s", "e", "r">>
      [] w = "assistant" -> <<"a", "s", "s", "i", "s", "t", "a", "n", "t">>
      [] w = "Successfully created draft: " -> <<"S", "u", "c", "c", "e", "s", "s", "f", "u", "l", "l", "y", " ", "c", "r", "e", "a", "t", "e", "d", " ", "d", "r", "a", "f", "t", ":", " ">>
      [] w = "Failed to create draft. Status: " -> <<"F", "a", "i", "l", "e", "d", " ", "t", "o", " ", "c", "r", "e", "a", "t", "e", " ", "d", "r", "a", "f", "t", ".", " ", "S", "t", "a", "t", "u", "s", ":", " ">>
      [] w = ", Response: " -> <<",", " ", "R", "e", "s", "p", "o", "n", "s", "e", ":", " ">>
      [] w = "Error creating draft: " -> <<"E", "r", "r", "o", "r", " ", "c", "r", "e", "a", "t", "i", "n", "g", " ", "d", "r", "a", "f", "t", ":", " ">>
      [] w = "Code failed safety validation" -> <<"C", "o", "d", "e", " ", "f", "a", "i", "l", "e", "d", " ", "s", "a", "f", "e", "t", "y", " ", "v", "a", "l", "i", "d", "a", "t", "i", "o", "n">>
      [] w = "Code executed successfully (no output)" -> <<"C", "o", "d", "e", " ", "e", "x", "e", "c", "u", "t", "e", "d", " ", "s", "u", "c", "c", "e", "s", "s", "f", "u", "l", "l", "y", " ", "(", "n", "o", " ", "o", "u", "t", "p", "u", "t", ")">>
      [] w = "Execution error: " -> <<"E", "x", "e", "c", "u", "t", "i", "o", "n", " ", "e", "r", "r", "o", "r", ":", " ">>
      [] w = "Error communicating with Judge0: " -> <<"E", "r", "r", "o", "r", " ", "c", "o", "m", "m", "u", "n", "i", "c", "a", "t", "i", "n", "g", " ", "w", "i", "t", "h", " ", "J", "u", "d", "g", "e", "0", ":", " ">>
      [] w = "os." -> <<"o", "s", ".">>
      [] w = "subprocess." -> <<"s", "u", "b", "p", "r", "o", "c", "e", "s", "s", ".">>
      [] w = "sys." -> <<"s", "y", "s", ".">>
      [] w = "token" -> <<"t", "o", "k", "e", "n">>
      [] w = "status" -> <<"s", "t", "a", "t", "u", "s">>
      [] w = "id" -> <<"i", "d">>
      [] w = "description" -> <<"d", "e", "s", "c", "r", "i", "p", "t", "i", "o", "n">>
      [] w = "stdout" -> <<"s", "t", "d", "o", "u", "t">>
      [] w = "stderr" -> <<"s", "t", "d", "e", "r", "r">>
      [] w = "None" -> <<"N", "o", "n", "e">>
      [] w = "'NoneType' object has no attribute 'lower'" -> <<"'", "N", "o", "n", "e", "T", "y", "p", "e", "'", " ", "o", "b", "j", "e", "c", "t", " ", "h", "a", "s", " ", "n", "o", " ", "a", "t", "t", "r", "i", "b", "u", "t", "e", " ", "'", "l", "o", "w", "e", "r", "'">>
      [] w = "Connection refused" -> <<"C", "o", "n", "n", "e", "c", "t", "i", "o", "n", " ", "r", "e", "f", "u", "s", "e", "d">>
      [] w = "Accepted" -> <<"A", "c", "c", "e", "p", "t", "e", "d">>
      [] w = "Wrong Answer" -> <<"W", "r", "o", "n", "g", " ", "A", "n", "s", "w", "e", "r">>
      [] w = "Unauthorized" -> <<"U", "n", "a", "u", "t", "h", "o", "r", "i", "z", "e", "d">>
      [] w = "not enough values to unpack (expected 2, got 1)" -> <<"n", "o", "t", " ", "e", "n", "o", "u", "g", "h", " ", "v", "a", "l", "u", "e", "s", " ", "t", "o", " ", "u", "n", "p", "a", "c", "k", " ", "(", "e", "x", "p", "e", "c", "t", "e", "d", " ", "2", ",", " ", "g", "o", "t", " ", "1", ")">>
      [] w = "too many values to unpack (expected 2)" -> <<"t", "o", "o", " ", "m", "a", "n", "y", " ", "v", "a", "l", "u", "e", "s", " ", "t", "o", " ", "u", "n", "p", "a", "c", "k", " ", "(", "e", "x", "p", "e", "c", "t", "e", "d", " ", "2", ")">>
      [] w = "non-hexadecimal number found in fromhex() arg at position " -> <<"n", "o", "n", "-", "h", "e", "x", "a", "d", "e", "c", "i", "m", "a", "l", " ", "n", "u", "m", "b", "e", "r", " ", "f", "o", "u", "n", "d", " ", "i", "n", " ", "f", "r", "o", "m", "h", "e", "x", "(", ")", " ", "a", "r", "g", " ", "a", "t", " ", "p", "o", "s", "i", "t", "i", "o", "n", " ">>
      [] w = "Expecting value: line 1 column 1 (char 0)" -> <<"E", "x", "p", "e", "c", "t", "i", "n", "g", " ", "v", "a", "l", "u", "e", ":", " ", "l", "i", "n", "e", " ", "1", " ", "c", "o", "l", "u", "m", "n", " ", "1", " ", "(", "c", "h", "a", "r", " ", "0", ")">>
      [] w = "list index out of range" -> <<"l", "i", "s", "t", " ", "i", "n", "d", "e", "x", " ", "o", "u", "t", " ", "o", "f", " ", "r", "a", "n", "g", "e">>
      [] w = " Client Error" -> <<" ", "C", "l", "i", "e", "n", "t", " ", "E", "r", "r", "o", "r">>
      [] w = " Server Error" -> <<" ", "S", "e", "r", "v", "e", "r", " ", "E", "r", "r", "o", "r">>
      [] w = "Execution Result:" -> <<"E", "x", "e", "c", "u", "t", "i", "o", "n", " ", "R", "e", "s", "u", "l", "t", ":">>
      [] w = "Compilation Error" -> <<"C", "o", "m", "p", "i", "l", "a", "t", "i", "o", "n", " ", "E", "r", "r", "o", "r">>
      [] w = "Runtime Error (NZEC)" -> <<"R", "u", "n", "t", "i", "m", "e", " ", "E", "r", "r", "o", "r", " ", "(", "N", "Z", "E", "C", ")">>
      [] w = "Traceback" -> <<"T", "r", "a", "c", "e", "b", "a", "c", "k">>
      [] w = "import os" -> <<"i", "m", "p", "o", "r", "t", " ", "o", "s">>
      [] w = "os.a" -> <<"o", "s", ".", "a">>
      [] w = "a sys.b" -> <<"a", " ", "s", "y", "s", ".", "b">>
      [] w = "subprocess.run" -> <<"s", "u", "b", "p", "r", "o", "c", "e", "s", "s", ".", "r", "u", "n">>
      [] w = "pos.x" -> <<"p", "o", "s", ".", "x">>
      [] w = "print(1)" -> <<"p", "r", "i", "n", "t", "(", "1", ")">>
      [] w = "sys" -> <<"s", "y", "s">>
      [] w = "POST" -> <<"P", "O", "S", "T">>
      [] w = "GET" -> <<"G", "E", "T">>
      [] w = "'token'" -> <<"'", "t", "o", "k", "e", "n", "'">>
      [] w = "'status'" -> <<"'", "s", "t", "a", "t", "u", "s", "'">>
      [] w = "list indices must be integers or slices, not str" -> <<"l", "i", "s", "t", " ", "i", "n", "d", "i", "c", "e", "s", " ", "m", "u", "s", "t", " ", "b", "e", " ", "i", "n", "t", "e", "g", "e", "r", "s", " ", "o", "r", " ", "s", "l", "i", "c", "e", "s", ",", " ", "n", "o", "t", " ", "s", "t", "r">>
      [] w = "1. a" -> <<"1", ".", " ", "a">>
      [] w = "2. *b*" -> <<"2", ".", " ", "*", "b", "*">>
      [] w = "c" -> <<"c">>
      [] w = " 10.  #a" -> <<" ", "1", "0", ".", " ", " ", "#", "a">>
      [] w = "2024 a" -> <<"2", "0", "2", "4", " ", "a">>
      [] w = "trending topics" -> <<"t", "r", "e", "n", "d", "i", "n", "g", " ", "t", "o", "p", "i", "c", "s">>
      [] w = "Find trending topics" -> <<"F", "i", "n", "d", " ", "t", "r", "e", "n", "d", "i", "n", "g", " ", "t", "o", "p", "i", "c", "s">>
      [] w = "system" -> <<"s", "y", "s", "t", "e", "m">>
      [] w = "Find Trending Topics" -> <<"F", "i", "n", "d", " ", "T", "r", "e", "n", "d", "i", "n", "g", " ", "T", "o", "p", "i", "c", "s">>
      [] w = "research a" -> <<"r", "e", "s", "e", "a", "r", "c", "h", " ", "a">>
      [] w = "about trending topics: none" -> <<"a", "b", "o", "u", "t", " ", "t", "r", "e", "n", "d", "i", "n", "g", " ", "t", "o", "p", "i", "c", "s", ":", " ", "n", "o", "n", "e">>
      [] w = "2. *b*" -> <<"2", ".", " ", "*", "b", "*">>
      [] w = "no topics" -> <<"n", "o", " ", "t", "o", "p", "i", "c", "s">>
      [] w = "process_stream" -> <<"p", "r", "o", "c", "e", "s", "s", "_", "s", "t", "r", "e", "a", "m">>
      [] w = ". a" -> <<".", " ", "a">>
      [] w = "draft" -> <<"d", "r", "a", "f", "t">>
      [] w = "public" -> <<"p", "u", "b", "l", "i", "c">>
      [] w = "a:0f" -> <<"a", ":", "0", "f">>
      [] w = "a:0g" -> <<"a", ":", "0", "g">>
      [] w = "a:b:0f" -> <<"a", ":", "b", ":", "0", "f">>
      [] w = "<h>" -> <<"<", "h", ">">>
      [] w = "{}" -> <<"{", "}">>
      [] w = "A b" -> <<"A", " ", "b">>

\* the text node node, with its keys in the order they are written in
TextRunDict(node) ==
    PyDict(<< <<Chars("type"), PyString(Chars(node.type))>>,
              <<Chars("text"), PyString(node.text)>>,
              <<Chars("format"), PyInt(node.format)>>,
              <<Chars("detail"), PyInt(node.detail)>>,
              <<Chars("mode"), PyString(Chars(node.mode))>>,
              <<Chars("style"), PyString(Chars(node.style))>> >>)

\* a slip: 'format' is written before 'text'
TextRunDictReordered(node) ==
    PyDict(<< <<Chars("type"), PyString(Chars(node.type))>>,
              <<Chars("format"), PyInt(node.format)>>,
              <<Chars("text"), PyString(node.text)>>,
              <<Chars("detail"), PyInt(node.detail)>>,
              <<Chars("mode"), PyString(Chars(node.mode))>>,
              <<Chars("style"), PyString(Chars(node.style))>> >>)

\* the heading or paragraph node node, with its keys in the order they are
\* written in
NodeDict(node) ==
    PyDict(<< <<Chars("type"), PyString(Chars(node.type))>> >>
           \o (IF node.type = "heading"
               THEN << <<Chars("tag"), PyString(node.tag)>> >> ELSE <<>>)
           \o << <<Chars("format"), PyString(Chars(node.format))>>,
                 <<Chars("indent"), PyInt(node.indent)>>,
                 <<Chars("version"), PyInt(node.version)>>,
                 <<Chars("children"),
                   PyList([k \in 1..Len(node.children) |-> TextRunDict(node.children[k])])>> >>)

\* the dict lexical, with its keys in the order they are written in
LexicalDict(lex) ==
    PyDict(<< <<Chars("root"),
                PyDict(<< <<Chars("type"), PyString(Chars(lex.root.type))>>,
                          <<Chars("format"), PyString(Chars(lex.root.format))>>,
                          <<Chars("indent"), PyInt(lex.root.indent)>>,
                          <<Chars("version"), PyInt(lex.root.version)>>,
                          <<Chars("children"),
                            PyList([k \in 1..Len(lex.root.children) |->
                                       NodeDict(lex.root.children[k])])>> >>)>> >>)

\* the document _content_to_lexical(c) returns
ContentToLexicalResult(c) ==
    LET paragraphs == Paragraphs(c)
        entries == Entries(paragraphs, Len(paragraphs))
    IN  Lexical([k \in 1..Len(entries) |-> entries[k].node])

\* lexical_str = json.dumps(lexical), the string that is returned
ContentToLexicalStr(c) == Dumps(LexicalDict(ContentToLexicalResult(c)))

\* the block each child of the returned root came from
ContentToLexicalOrigin(c) ==
    LET paragraphs == Paragraphs(c)
        entries == Entries(paragraphs, Len(paragraphs))
    IN  [k \in 1..Len(entries) |-> entries[k].block]

----------------------------------------------------------------------------
(* The inputs *)

\* blocks of the sample documents
SampleBlocks ==
    { <<"a">>, <<"a", "a">>, <<"a", NL, "a">>, <<"a", NL, " ", NL, "a">>,
      <<HASH, " ", "a">>, <<HASH, " ", "a", NL, "a">>, <<" ">> }

\* blocks joined by the blank-line delimiter
RECURSIVE JoinBlocks(_)
JoinBlocks(bs) ==
    IF Len(bs) = 0 THEN <<>>
    ELSE IF Len(bs) = 1 THEN bs[1]
    ELSE bs[1] \o <<NL, NL>> \o JoinBlocks(Tail(bs))

StringInputs ==
    Strings(MaxLen)
    \cup {Hashes(k) \o t : k \in 1..MaxHashes, t \in Strings(MaxTail)}
    \cup {JoinBlocks(bs) : bs \in UNION {[1..n -> SampleBlocks] : n \in 1..MaxBlocks}}

\* the values a mapping of the model holds
DictValues == {PyString(s) : s \in Strings(MaxDictLen)} \cup {PyNone}

DictInputs ==
    {PyDict(<<<<KeyContent, v>>>>) : v \in DictValues}
    \cup {PyDict(<<<<KeyContent, v>>, <<KeyTopic, PyString(t)>>>>) :
            v \in DictValues, t \in SampleBlocks}
    \cup {PyDict(<<<<KeyTopic, PyString(t)>>, <<KeyContent, v>>>>) :
            v \in DictValues, t \in SampleBlocks}
    \cup {PyDict(<<<<KeyTopic, v>>>>) : v \in DictValues}

Inputs == {PyString(s) : s \in StringInputs} \cup DictInputs

----------------------------------------------------------------------------
(* The state machine: one call of _content_to_lexical per behaviour *)

NoDocument == [root |-> "none"]

\* nothing has been returned or parsed yet
NoString == <<>>

InitCall ==
    /\ pc = "call"
    /\ outcome = "none"
    /\ lexical = NoDocument
    /\ origin = <<>>
    /\ lexical_str = NoString
    /\ rt_pc = "idle"
    /\ reparsed = ParseError
    /\ reserialized = NoString

NoFile == [exists |-> FALSE, text |-> <<>>]

NoCall == [op |-> "none", raised |-> FALSE]

StateManagerIdle ==
    /\ sm_file = NoFile
    /\ sm_state = PyNone
    /\ sm_now = 0
    /\ sm_last = NoCall
    /\ sm_ret = PyNone
    /\ sm_prev = PyNone
    /\ sm_added = <<>>

NoOutcome ==
    [raised |-> FALSE, result |-> <<>>, sent |-> FALSE,
     body |-> [title |-> <<>>, slug |-> <<>>, lexical |-> <<>>, status |-> <<>>, visibility |-> <<>>]]

PostDraftIdle ==
    /\ pd_pc = "idle"
    /\ pd_args = [title |-> PyNone, content |-> PyNone]
    /\ pd_env = [api_key |-> <<>>, http |-> "none"]
    /\ pd_out = NoOutcome

NoSubmission == [id |-> 0, stdout |-> PyNone, stderr |-> PyNone, description |-> <<>>]

ExecutorIdle ==
    /\ ce_pc = "idle"
    /\ ce_code = <<>>
    /\ ce_judge = NoSubmission
    /\ ce_polls = 0
    /\ ce_sent = <<>>
    /\ ce_seen = 0
    /\ ce_out = [raised |-> FALSE, result |-> <<>>, plugin |-> <<>>]

CliIdle ==
    /\ et_pc = "idle"
    /\ et_content = <<>>
    /\ et_topics = <<>>
    /\ et_origin = <<>>
    /\ ps_pc = "idle"
    /\ ps_chat = <<>>
    /\ ps_stream = <<>>

Init ==
    /\ content \in Inputs
    /\ InitCall
    /\ StateManagerIdle
    /\ PostDraftIdle
    /\ CliIdle
    /\ ExecutorIdle

ContentToLexical ==
    /\ pc = "call"
    /\ pc' = "done"
    /\ IF Raises(content)
       THEN /\ outcome' = "raised"
            /\ UNCHANGED <<lexical, origin, lexical_str>>
       ELSE /\ outcome' = "returned"
            /\ lexical' = ContentToLexicalResult(content)
            /\ origin' = ContentToLexicalOrigin(content)
            /\ lexical_str' = ContentToLexicalStr(content)
    /\ UNCHANGED content
    /\ UNCHANGED <<rtvars, smvars, pdvars, cevars, clivars>>

Next == ContentToLexical

Spec == Init /\ [][Next]_vars

----------------------------------------------------------------------------
(* The returned string parsed and serialized again *)

\* the characters of the inputs of these calls: those json.dumps escapes
\* and those it writes as they are
JsonAlphabet == {"a", HASH, NL, QUOTE, BACKSLASH, EACUTE}

JsonInputs ==
    {PyString(s) : s \in UNION {[1..k -> JsonAlphabet] : k \in 0..MaxJsonLen}}
    \cup {PyString(JoinBlocks(bs)) : bs \in [1..2 -> SampleBlocks]}
    \cup {PyDict(<<<<KeyTopic, v>>>>) : v \in DictValues}
    \cup {PyDict(<<<<KeyContent, v>>>>) : v \in DictValues}

InitJson ==
    /\ content \in JsonInputs
    /\ InitCall
    /\ StateManagerIdle
    /\ PostDraftIdle
    /\ CliIdle
    /\ ExecutorIdle

\* parsed = json.loads(lexical_str)
Reparse ==
    /\ pc = "done" /\ outcome = "returned" /\ rt_pc = "idle"
    /\ reparsed' = Loads(lexical_str)
    /\ rt_pc' = "parsed"
    /\ UNCHANGED <<lexvars, reserialized, smvars, pdvars, cevars, clivars>>

\* json.dumps(parsed)
Reserialize ==
    /\ rt_pc = "parsed" /\ reparsed.ok
    /\ reserialized' = Dumps(reparsed.v)
    /\ rt_pc' = "dumped"
    /\ UNCHANGED <<lexvars, reparsed, smvars, pdvars, cevars, clivars>>

NextJson == ContentToLexical \/ Reparse \/ Reserialize

SpecJson == InitJson /\ [][NextJson]_vars

----------------------------------------------------------------------------
(* StateManager (src/utils/state_manager.py) *)

KeyChatHistory == Chars("chat_history")

KeyTopics == Chars("topics")

KeyLastUpdated == Chars("last_updated")

\* datetime.now().isoformat() at clock value now
IsoFormat(now) == <<"T">> \o Decimal(now)

\* _create_default_state
CreateDefaultState(now) ==
    PyDict(<< <<KeyChatHistory, PyList(<<>>)>>,
              <<KeyTopics, PyList(<<>>)>>,
              <<KeyLastUpdated, PyString(IsoFormat(now))>> >>)

\* whether _load_state falls back to the default state
LoadsDefault(file) == ~file.exists \/ ~Loads(file.text).ok

\* _load_state
LoadState(file, now) ==
    IF LoadsDefault(file) THEN CreateDefaultState(now) ELSE Loads(file.text).v

\* a slip: the file is written without the topics
SaveStateWithoutTopics(state) ==
    [exists |-> TRUE,
     text |-> DumpsValue(PyDict(SelectSeq(state.val, LAMBDA item : item[1] # KeyTopics)), 2, 0)]

\* _save_state: the file as json.dump(self.state, f, indent=2) leaves it
SaveState(state) == [exists |-> TRUE, text |-> DumpsValue(state, 2, 0)]

\* the dict add_message appends
Message(role, text, now) ==
    PyDict(<< <<Chars("role"), PyString(role)>>,
              <<Chars("content"), PyString(text)>>,
              <<Chars("timestamp"), PyString(IsoFormat(now))>> >>)

\* self.state['chat_history'].append(...) raises TypeError, KeyError or
\* AttributeError when the state has no list under 'chat_history'
AddMessageRaises(state) ==
    ~(IsDict(state) /\ HasKey(state, KeyChatHistory)
        /\ GetItem(state, KeyChatHistory).type = "list")

\* a slip: the message is put in front of the earlier ones
AddMessagePrepends(state, role, text, now) ==
    PyDict(DictSet(state.val, KeyChatHistory,
                   PyList(<<Message(role, text, now)>>
                          \o GetItem(state, KeyChatHistory).val)))

\* the state after add_message
AddMessageState(state, role, text, now) ==
    PyDict(DictSet(state.val, KeyChatHistory,
                   PyList(Append(GetItem(state, KeyChatHistory).val,
                                 Message(role, text, now)))))

\* self.state['topics'] = topics raises TypeError when the state is no dict
AddTopicsRaises(state) == ~IsDict(state)

\* the state after add_topics
AddTopicsState(state, topics, now) ==
    PyDict(DictSet(DictSet(state.val, KeyTopics,
                           PyList([k \in 1..Len(topics) |-> PyString(topics[k])])),
                   KeyLastUpdated, PyString(IsoFormat(now))))

\* self.state['chat_history'] = [] raises TypeError when the state is no dict
ClearHistoryRaises(state) == ~IsDict(state)

\* the state after clear_history
ClearHistoryState(state) == PyDict(DictSet(state.val, KeyChatHistory, PyList(<<>>)))

\* self.state[key] raises TypeError or KeyError
GetRaises(state, key) == ~(IsDict(state) /\ HasKey(state, key))

\* the <<role, content>> pairs of the messages of a chat history
IsMessage(m) ==
    /\ IsDict(m) /\ HasKey(m, Chars("role")) /\ HasKey(m, Chars("content"))
    /\ GetItem(m, Chars("role")).type = "str" /\ GetItem(m, Chars("content")).type = "str"

PairsOf(state) ==
    IF AddMessageRaises(state) THEN <<>>
    ELSE LET h == GetItem(state, KeyChatHistory).val
         IN  IF \A k \in 1..Len(h) : IsMessage(h[k])
             THEN [k \in 1..Len(h) |->
                     <<GetItem(h[k], Chars("role")).val, GetItem(h[k], Chars("content")).val>>]
             ELSE <<>>

(* The calls *)

SampleRoles == {Chars("user"), Chars("assistant")}

SampleContents == {<<"a">>, <<QUOTE, NL>>}

SampleTopicLists == { <<>>, << <<"a">> >>, << <<"a">>, <<HASH, "b">> >> }

\* a state file this program wrote earlier
WrittenFile ==
    SaveState(AddTopicsState(AddMessageState(CreateDefaultState(0), Chars("user"),
                                             <<"a", NL, "b">>, 0),
                             << <<"b">> >>, 0))

\* the state file at the start: none, one this program wrote, or one whose
\* writing was cut short
InitialFiles ==
    { NoFile, WrittenFile,
      [exists |-> TRUE, text |-> <<>>],
      [exists |-> TRUE, text |-> SubSeq(WrittenFile.text, 1, Len(WrittenFile.text) - 2)] }

\* the state after StateManager(state_file) has been constructed
InitState ==
    /\ sm_file \in InitialFiles
    /\ sm_state = LoadState(sm_file, 0)
    /\ sm_now = 1
    /\ sm_last = [op |-> "init", raised |-> FALSE]
    /\ sm_ret = PyNone
    /\ sm_prev = PyNone
    /\ sm_added = PairsOf(LoadState(sm_file, 0))
    /\ content = PyString(<<>>)
    /\ pc = "idle"
    /\ outcome = "none"
    /\ lexical = NoDocument
    /\ origin = <<>>
    /\ lexical_str = NoString
    /\ rt_pc = "idle"
    /\ reparsed = ParseError
    /\ reserialized = NoString
    /\ PostDraftIdle
    /\ CliIdle
    /\ ExecutorIdle

Called(op, raised) == sm_last' = [op |-> op, raised |-> raised]

\* a call that raises changes neither the state nor the file
RaisedIn(op) ==
    /\ Called(op, TRUE)
    /\ sm_prev' = sm_state
    /\ sm_ret' = PyNone
    /\ UNCHANGED <<sm_file, sm_state, sm_now, sm_added>>

\* StateManager(state_file) constructed again on the same file
Construct ==
    /\ sm_now < MaxClock \/ ~LoadsDefault(sm_file)
    /\ sm_state' = LoadState(sm_file, sm_now)
    /\ sm_now' = IF LoadsDefault(sm_file) THEN sm_now + 1 ELSE sm_now
    /\ sm_added' = PairsOf(LoadState(sm_file, sm_now))
    /\ Called("init", FALSE)
    /\ sm_prev' = sm_state
    /\ sm_ret' = PyNone
    /\ UNCHANGED <<sm_file, lexvars, rtvars, clivars, pdvars, cevars>>

AddMessage(role, text) ==
    /\ sm_now < MaxClock
    /\ IF AddMessageRaises(sm_state)
       THEN RaisedIn("add_message")
       ELSE /\ sm_state' = AddMessageState(sm_state, role, text, sm_now)
            /\ sm_file' = SaveState(AddMessageState(sm_state, role, text, sm_now))
            /\ sm_now' = sm_now + 1
            /\ sm_added' = Append(sm_added, <<role, text>>)
            /\ Called("add_message", FALSE)
            /\ sm_prev' = sm_state
            /\ sm_ret' = PyNone
    /\ UNCHANGED <<lexvars, rtvars, clivars, pdvars, cevars>>

AddTopics(topics) ==
    /\ sm_now < MaxClock
    /\ IF AddTopicsRaises(sm_state)
       THEN RaisedIn("add_topics")
       ELSE /\ sm_state' = AddTopicsState(sm_state, topics, sm_now)
            /\ sm_file' = SaveState(AddTopicsState(sm_state, topics, sm_now))
            /\ sm_now' = sm_now + 1
            /\ Called("add_topics", FALSE)
            /\ sm_prev' = sm_state
            /\ sm_ret' = PyNone
            /\ UNCHANGED sm_added
    /\ UNCHANGED <<lexvars, rtvars, clivars, pdvars, cevars>>

ClearHistory ==
    /\ IF ClearHistoryRaises(sm_state)
       THEN RaisedIn("clear_history")
       ELSE /\ sm_state' = ClearHistoryState(sm_state)
            /\ sm_file' = SaveState(ClearHistoryState(sm_state))
            /\ sm_added' = <<>>
            /\ Called("clear_history", FALSE)
            /\ sm_prev' = sm_state
            /\ sm_ret' = PyNone
            /\ UNCHANGED sm_now
    /\ UNCHANGED <<lexvars, rtvars, clivars, pdvars, cevars>>

GetChatHistory ==
    /\ IF GetRaises(sm_state, KeyChatHistory)
       THEN RaisedIn("get_chat_history")
       ELSE /\ sm_ret' = GetItem(sm_state, KeyChatHistory)
            /\ Called("get_chat_history", FALSE)
            /\ sm_prev' = sm_state
            /\ UNCHANGED <<sm_file, sm_state, sm_now, sm_added>>
    /\ UNCHANGED <<lexvars, rtvars, clivars, pdvars, cevars>>

GetTopics ==
    /\ IF GetRaises(sm_state, KeyTopics)
       THEN RaisedIn("get_topics")
       ELSE /\ sm_ret' = GetItem(sm_state, KeyTopics)
            /\ Called("get_topics", FALSE)
            /\ sm_prev' = sm_state
            /\ UNCHANGED <<sm_file, sm_state, sm_now, sm_added>>
    /\ UNCHANGED <<lexvars, rtvars, clivars, pdvars, cevars>>

NextState ==
    \/ Construct
    \/ \E role \in SampleRoles, text \in SampleContents : AddMessage(role, text)
    \/ \E topics \in SampleTopicLists : AddTopics(topics)
    \/ ClearHistory
    \/ GetChatHistory
    \/ GetTopics

SpecState == InitState /\ [][NextState]_vars

\* state files that are valid JSON but were not written by this program
ForeignFiles ==
    {[exists |-> TRUE, text |-> text] :
        text \in {<<"[", "]">>, <<"{", "}">>, <<"1">>, <<"n", "u", "l", "l">>,
                  <<QUOTE, "a", QUOTE>>,
                  Dumps(PyDict(<< <<KeyChatHistory, PyList(<<>>)>> >>)),
                  Dumps(PyDict(<< <<KeyTopics, PyList(<<>>)>> >>)),
                  Dumps(PyDict(<< <<KeyChatHistory, PyString(<<"a">>)>>,
                                  <<KeyTopics, PyList(<<>>)>> >>))}}

\* the state after StateManager(state_file) has been constructed on a file
\* of any content
InitAnyFile ==
    /\ sm_file \in InitialFiles \cup ForeignFiles
    /\ sm_state = LoadState(sm_file, 0)
    /\ sm_now = 1
    /\ sm_last = [op |-> "init", raised |-> FALSE]
    /\ sm_ret = PyNone
    /\ sm_prev = PyNone
    /\ sm_added = PairsOf(LoadState(sm_file, 0))
    /\ content = PyString(<<>>)
    /\ pc = "idle"
    /\ outcome = "none"
    /\ lexical = NoDocument
    /\ origin = <<>>
    /\ lexical_str = NoString
    /\ rt_pc = "idle"
    /\ reparsed = ParseError
    /\ reserialized = NoString
    /\ PostDraftIdle
    /\ CliIdle
    /\ ExecutorIdle

SpecAnyFile == InitAnyFile /\ [][NextState]_vars

----------------------------------------------------------------------------
(* Exceptions *)

\* an exception: its class and str(e)
Exception(class, msg) == [class |-> class, msg |-> msg]

NoException == Exception("none", <<>>)

\* the classes derived from requests.RequestException; the JSONDecodeError
\* of requests (2.27 and later) is one of them, the ValueError that
\* response.json() raises in earlier versions is not
RequestExceptions == {"ConnectionError", "Timeout", "HTTPError", "JSONDecodeError"}

\* except requests.RequestException
CatchesRequestException(e) == e.class \in RequestExceptions

\* what an HTTP request meets: an exception, or a response
HttpRaises(e) == [kind |-> "raises", exc |-> e, status |-> 0, text |-> <<>>]

Response(status, text) == [kind |-> "response", exc |-> NoException, status |-> status, text |-> text]

\* response.json() raises when the body is not JSON
JsonRaises(text) == ~Loads(text).ok

----------------------------------------------------------------------------
(* post_draft (src/plugins/adminplugin.py) *)

HexDigits == {"0", "1", "2", "3", "4", "5", "6", "7", "8", "9",
              "a", "b", "c", "d", "e", "f", "A", "B", "C", "D", "E", "F"}

\* bytes.fromhex(secret) raises ValueError
FromHexRaises(secret) ==
    (\E i \in 1..Len(secret) : secret[i] \notin HexDigits) \/ Len(secret) % 2 = 1

\* the position its message reports
FromHexPosition(secret) ==
    IF \E i \in 1..Len(secret) : secret[i] \notin HexDigits
    THEN FirstOutside(secret, HexDigits) - 1
    ELSE Len(secret)

\* the exception _generate_token raises, NoException if it returns
GenerateTokenException(api_key) ==
    LET parts == SplitSep(api_key, <<":">>, -1)
    IN  IF Len(parts) < 2
        THEN Exception("ValueError", Chars("not enough values to unpack (expected 2, got 1)"))
        ELSE IF Len(parts) > 2
        THEN Exception("ValueError", Chars("too many values to unpack (expected 2)"))
        ELSE IF FromHexRaises(parts[2])
        THEN Exception("ValueError",
                       Chars("non-hexadecimal number found in fromhex() arg at position ")
                       \o Decimal(FromHexPosition(parts[2])))
        ELSE NoException

\* ch.lower() for the letters A to Z
Lower(ch) ==
    LET upper == <<"A", "B", "C", "D", "E", "F", "G", "H", "I", "J", "K", "L", "M",
                   "N", "O", "P", "Q", "R", "S", "T", "U", "V", "W", "X", "Y", "Z">>
        lower == <<"a", "b", "c", "d", "e", "f", "g", "h", "i", "j", "k", "l", "m",
                   "n", "o", "p", "q", "r", "s", "t", "u", "v", "w", "x", "y", "z">>
    IN  IF \E i \in 1..26 : upper[i] = ch
        THEN lower[CHOOSE i \in 1..26 : upper[i] = ch]
        ELSE ch

\* slug = title.lower().replace(' ', '-')
Slug(title) ==
    [k \in 1..Len(title) |-> IF Lower(title[k]) = " " THEN "-" ELSE Lower(title[k])]

\* the post of the request body; the two dates are left out
PostData(title, c) ==
    [title |-> title, slug |-> Slug(title), lexical |-> ContentToLexicalStr(c),
     status |-> Chars("draft"), visibility |-> Chars("public")]

\* the first exception raised in the try block before the request is made
BeforeRequestException(title, c, api_key) ==
    IF GenerateTokenException(api_key) # NoException
    THEN GenerateTokenException(api_key)
    ELSE IF Raises(c)
    THEN Exception("IndexError", Chars("list index out of range"))
    ELSE IF title.type # "str"
    THEN Exception("AttributeError", Chars("'NoneType' object has no attribute 'lower'"))
    ELSE NoException

\* the exception raised from the request on, NoException if there is none:
\* requests.post raises, or the body that is logged is not JSON
FromRequestException(http) ==
    IF http.kind = "raises" THEN http.exc
    ELSE IF http.text # <<>> /\ JsonRaises(http.text)
    THEN Exception("JSONDecodeError", Chars("Expecting value: line 1 column 1 (char 0)"))
    ELSE NoException

\* a slip: only the exceptions of requests are caught
PostDraftCatchesRequestsOnly(e) == CatchesRequestException(e)

\* the except clause of post_draft, except Exception: every exception that
\* the calls of the try block raise
PostDraftCatches(e) ==
    e.class \in RequestExceptions
                 \cup {"ValueError", "AttributeError", "IndexError", "KeyError", "TypeError"}

\* the except branch
PostDraftError(e, sent, body) ==
    IF PostDraftCatches(e)
    THEN [raised |-> FALSE, result |-> Chars("Error creating draft: ") \o e.msg,
          sent |-> sent, body |-> body]
    ELSE [raised |-> TRUE, result |-> <<>>, sent |-> sent, body |-> body]

\* the result for a response whose body could be logged
PostDraftAnswer(title, http, body) ==
    [raised |-> FALSE, sent |-> TRUE, body |-> body,
     result |-> IF http.status = 201
                THEN Chars("Successfully created draft: ") \o title.val
                ELSE Chars("Failed to create draft. Status: ") \o Decimal(http.status)
                     \o Chars(", Response: ") \o http.text]

\* post_draft(title, content) with the API key and the HTTP exchange of env
PostDraftOutcome(title, c, env) ==
    IF BeforeRequestException(title, c, env.api_key) # NoException
    THEN PostDraftError(BeforeRequestException(title, c, env.api_key), FALSE, NoOutcome.body)
    ELSE IF FromRequestException(env.http) # NoException
    THEN PostDraftError(FromRequestException(env.http), TRUE, PostData(title.val, c))
    ELSE PostDraftAnswer(title, env.http, PostData(title.val, c))

SampleTitles == {PyString(Chars("A b")), PyString(<<"a">>), PyNone}

SampleContent ==
    { PyString(<<"a">>), PyString(<<HASH, " ", "a", NL, NL, "a">>),
      PyDict(<< <<KeyContent, PyString(<<"a">>)>> >>) }

SampleApiKeys == {Chars("a:0f"), <<"a">>, Chars("a:b:0f"), Chars("a:0g")}

SampleHttp ==
    {HttpRaises(Exception("ConnectionError", Chars("Connection refused")))}
    \cup {Response(s, b) : s \in {200, 201, 401, 502}, b \in {<<>>, Chars("{}"), Chars("<h>")}}

InitDraft ==
    /\ pd_pc = "call"
    /\ pd_args \in [title : SampleTitles, content : SampleContent]
    /\ pd_env \in [api_key : SampleApiKeys, http : SampleHttp]
    /\ pd_out = NoOutcome
    /\ content = PyString(<<>>)
    /\ pc = "idle"
    /\ outcome = "none"
    /\ lexical = NoDocument
    /\ origin = <<>>
    /\ lexical_str = NoString
    /\ rt_pc = "idle"
    /\ reparsed = ParseError
    /\ reserialized = NoString
    /\ StateManagerIdle
    /\ ExecutorIdle
    /\ CliIdle

PostDraft ==
    /\ pd_pc = "call"
    /\ pd_pc' = "done"
    /\ pd_out' = PostDraftOutcome(pd_args.title, pd_args.content, pd_env)
    /\ UNCHANGED <<pd_args, pd_env, lexvars, rtvars, clivars, smvars, cevars>>

SpecDraft == InitDraft /\ [][PostDraft]_vars

----------------------------------------------------------------------------
(* execute_code (src/code_executor.py) and execute_python_code          *)
(* (src/code_executor_plugin.py)                                          *)

UnsafeOperations == {Chars("os."), Chars("subprocess."), Chars("sys.")}

\* op in code
Contains(code, op) == Find(code, op) # 0

\* a slip: code is refused only when it holds every unsafe operation
ValidateCodeAny(code) == \E op \in UnsafeOperations : ~Contains(code, op)

\* validate_code
ValidateCode(code) == \A op \in UnsafeOperations : ~Contains(code, op)

\* how a call ends: it returns result, or an exception leaves it;
\* plugin is what execute_python_code returns around it
Returns(result) ==
    [raised |-> FALSE, result |-> result,
     plugin |-> Chars("Execution Result:") \o <<NL>> \o result]

Propagates == [raised |-> TRUE, result |-> <<>>, plugin |-> <<>>]

\* the except clause of execute_code
ExecuteCodeError(e) ==
    IF CatchesRequestException(e)
    THEN Returns(Chars("Error communicating with Judge0: ") \o e.msg)
    ELSE Propagates

\* response.raise_for_status() raises HTTPError
RaisesForStatus(status) == status >= 400 /\ status < 600

\* the beginning of the message of that HTTPError
HTTPError(status) ==
    Exception("HTTPError",
              Decimal(status) \o (IF status < 500 THEN Chars(" Client Error")
                                  ELSE Chars(" Server Error")))

\* the exception of v[key], NoException if v is a dict that holds key
SubscriptException(v, key) ==
    IF ~IsDict(v)
    THEN Exception("TypeError", Chars("list indices must be integers or slices, not str"))
    ELSE IF ~HasKey(v, key)
    THEN Exception("KeyError", <<"'">> \o key \o <<"'">>)
    ELSE NoException

\* the exception of an exchange before its body is used: the request
\* fails, the status is an error, or the body is not JSON (jsonError is the
\* class that response.json() raises in the installed requests)
ExchangeException(http, jsonError) ==
    IF http.kind = "raises" THEN http.exc
    ELSE IF RaisesForStatus(http.status) THEN HTTPError(http.status)
    ELSE IF JsonRaises(http.text)
    THEN Exception(jsonError, Chars("Expecting value: line 1 column 1 (char 0)"))
    ELSE NoException

\* lines 60-62: the exception of the submission, NoException if it gives a token
SubmitException(http, jsonError) ==
    IF ExchangeException(http, jsonError) # NoException
    THEN ExchangeException(http, jsonError)
    ELSE SubscriptException(Loads(http.text).v, Chars("token"))

\* lines 66-71: the exception of a status request; NoException if
\* result["status"]["id"] can be read
StatusException(http, jsonError) ==
    IF ExchangeException(http, jsonError) # NoException
    THEN ExchangeException(http, jsonError)
    ELSE IF SubscriptException(Loads(http.text).v, Chars("status")) # NoException
    THEN SubscriptException(Loads(http.text).v, Chars("status"))
    ELSE SubscriptException(GetItem(Loads(http.text).v, Chars("status")), Chars("id"))

\* result["status"]["id"]
StatusId(result) == GetItem(GetItem(result, Chars("status")), Chars("id")).val

\* a slip: only status 1 counts as still processing
StillProcessingQueuedOnly(result) == StatusId(result) = 1

\* result["status"]["id"] in [1, 2]
StillProcessing(result) == StatusId(result) \in {1, 2}

\* str(v) inside an f-string
Format(v) == IF v.type = "NoneType" THEN Chars("None") ELSE v.val

\* x or y
Truthy(v) == v.type = "str" /\ v.val # <<>>

\* lines 74-78: the result for a submission that has completed
Completed(result) ==
    IF StatusId(result) = 3
    THEN (IF SubscriptException(result, Chars("stdout")) # NoException
          THEN Propagates
          ELSE IF Truthy(GetItem(result, Chars("stdout")))
          THEN Returns(GetItem(result, Chars("stdout")).val)
          ELSE Returns(Chars("Code executed successfully (no output)")))
    ELSE IF SubscriptException(GetItem(result, Chars("status")), Chars("description")) # NoException
    THEN Propagates
    ELSE Returns(Chars("Execution error: ")
                 \o Format(GetItem(GetItem(result, Chars("status")), Chars("description")))
                 \o <<NL>>
                 \o (IF HasKey(result, Chars("stderr"))
                     THEN Format(GetItem(result, Chars("stderr")))
                     ELSE <<>>))

(* Judge0 *)

\* the body Judge0 gives for a submission
JudgeBody(judge) ==
    Dumps(PyDict(<< <<Chars("stdout"), judge.stdout>>,
                    <<Chars("stderr"), judge.stderr>>,
                    <<Chars("status"),
                      PyDict(<< <<Chars("id"), PyInt(judge.id)>>,
                                <<Chars("description"), PyString(judge.description)>> >>)>> >>))

TokenBody == Dumps(PyDict(<< <<Chars("token"), PyString(<<"t">>)>> >>))

Queued == [id |-> 1, stdout |-> PyNone, stderr |-> PyNone, description |-> <<"Q">>]

Processing == [id |-> 2, stdout |-> PyNone, stderr |-> PyNone, description |-> <<"P">>]

\* the final states of a Python submission
Finished ==
    {[id |-> 3, stdout |-> out, stderr |-> PyNone, description |-> Chars("Accepted")] :
        out \in {PyNone, PyString(<<>>), PyString(<<"1", NL>>)}}
    \cup {[id |-> 6, stdout |-> PyNone, stderr |-> PyNone,
           description |-> Chars("Compilation Error")]}
    \cup {[id |-> 11, stdout |-> out, stderr |-> PyString(Chars("Traceback")),
           description |-> Chars("Runtime Error (NZEC)")] :
            out \in {PyNone, PyString(<<"1", NL>>)}}

NetworkError == HttpRaises(Exception("ConnectionError", Chars("Connection refused")))

\* what can come back for the submission request
SubmitExchanges ==
    {NetworkError, Response(401, Chars("{}")), Response(201, TokenBody),
     Response(201, Chars("{}")), Response(201, Chars("<h>")), Response(201, <<"[", "]">>)}

\* what can come back for a status request
StatusExchanges(judge) ==
    {NetworkError, Response(502, Chars("<h>")), Response(200, JudgeBody(judge)),
     Response(200, Chars("{}")), Response(200, Chars("<h>"))}

JsonErrorClasses == {"JSONDecodeError", "ValueError"}

SampleCodes ==
    {Chars("print(1)"), Chars("import os"), Chars("os.a"), Chars("a sys.b"),
     Chars("subprocess.run"), Chars("pos.x"), Chars("sys"), <<>>}

InitExec ==
    /\ ce_pc = "call"
    /\ ce_code \in SampleCodes
    /\ ce_judge = NoSubmission
    /\ ce_polls = 0
    /\ ce_sent = <<>>
    /\ ce_seen = 0
    /\ ce_out = [raised |-> FALSE, result |-> <<>>, plugin |-> <<>>]
    /\ content = PyString(<<>>)
    /\ pc = "idle"
    /\ outcome = "none"
    /\ lexical = NoDocument
    /\ origin = <<>>
    /\ lexical_str = NoString
    /\ rt_pc = "idle"
    /\ reparsed = ParseError
    /\ reserialized = NoString
    /\ StateManagerIdle
    /\ PostDraftIdle
    /\ CliIdle

\* lines 42-62: the validation and the submission
Submit(http, jsonError) ==
    /\ ce_pc = "call"
    /\ IF ~ValidateCode(ce_code)
       THEN /\ ce_pc' = "done"
            /\ ce_out' = Returns(Chars("Code failed safety validation"))
            /\ UNCHANGED <<ce_judge, ce_sent>>
       ELSE /\ ce_sent' = Append(ce_sent, Chars("POST"))
            /\ IF SubmitException(http, jsonError) # NoException
               THEN /\ ce_pc' = "done"
                    /\ ce_out' = ExecuteCodeError(SubmitException(http, jsonError))
                    /\ UNCHANGED ce_judge
               ELSE /\ ce_pc' = "poll"
                    /\ ce_judge' = Queued
                    /\ UNCHANGED ce_out
    /\ UNCHANGED <<ce_code, ce_polls, ce_seen, lexvars, rtvars, clivars, smvars, pdvars>>

\* lines 65-78: one round of the loop
Poll(http, jsonError) ==
    /\ ce_pc = "poll"
    /\ ce_polls < MaxPolls \/ ce_judge.id \notin {1, 2}
    /\ ce_sent' = Append(ce_sent, Chars("GET"))
    /\ IF StatusException(http, jsonError) # NoException
       THEN /\ ce_pc' = "done"
            /\ ce_out' = ExecuteCodeError(StatusException(http, jsonError))
            /\ ce_seen' = 0
            /\ UNCHANGED ce_polls
       ELSE /\ ce_seen' = StatusId(Loads(http.text).v)
            /\ IF StillProcessing(Loads(http.text).v)
               THEN /\ ce_polls' = ce_polls + 1
                    /\ UNCHANGED <<ce_pc, ce_out>>
               ELSE /\ ce_pc' = "done"
                    /\ ce_out' = Completed(Loads(http.text).v)
                    /\ UNCHANGED ce_polls
    /\ UNCHANGED <<ce_code, ce_judge, lexvars, rtvars, clivars, smvars, pdvars>>

\* Judge0 takes the submission from the queue, or finishes it
Judge0Step ==
    /\ ce_pc = "poll"
    /\ \/ ce_judge = Queued /\ ce_judge' = Processing
       \/ ce_judge = Processing /\ ce_judge' \in Finished
    /\ UNCHANGED <<ce_pc, ce_code, ce_polls, ce_sent, ce_seen, ce_out,
                   lexvars, rtvars, clivars, smvars, pdvars>>

PollAny ==
    \E http \in StatusExchanges(ce_judge), jsonError \in JsonErrorClasses : Poll(http, jsonError)

NextExec ==
    \/ \E http \in SubmitExchanges, jsonError \in JsonErrorClasses : Submit(http, jsonError)
    \/ PollAny
    \/ Judge0Step

SpecExec == InitExec /\ [][NextExec]_vars

\* every status request is answered, so the loop goes on
SpecExecFair == SpecExec /\ WF_vars(PollAny)

----------------------------------------------------------------------------
(* extract_topics (src/cli.py) *)

\* the grave accent character, which a string of this notation cannot hold
BACKTICK == "U+0060"

\* where the match of ^\d+ ends in s, 0 if s begins with no digit
DigitsEnd(s) == FirstOutside(s, Digits) - 1

\* where the match of ^\d+\.? ends in s
NumberEnd(s) ==
    IF DigitsEnd(s) < Len(s) /\ s[DigitsEnd(s) + 1] = "." THEN DigitsEnd(s) + 1 ELSE DigitsEnd(s)

\* the length of what ^\d+\.?\s+ matches in s, 0 if it does not match
NumberPrefix(s) ==
    LET spaces == FirstOutside(Drop(s, NumberEnd(s)), Whitespace) - 1
    IN  IF DigitsEnd(s) = 0 \/ spaces = 0 THEN 0 ELSE NumberEnd(s) + spaces

\* whether (.+)$ matches all of rest
MatchesText(rest) ==
    LET body == IF rest # <<>> /\ rest[Len(rest)] = NL THEN Take(rest, Len(rest) - 1) ELSE rest
    IN  (rest # <<>> /\ \A i \in 1..Len(rest) : rest[i] # NL)
        \/ (body # <<>> /\ \A i \in 1..Len(body) : body[i] # NL)

\* re.match(r'^\d+\.?\s+(.+)$', s)
IsTopicLine(s) ==
    /\ NumberPrefix(s) > 0
    /\ \E k \in (NumberEnd(s) + 1)..NumberPrefix(s) : MatchesText(Drop(s, k))

\* lines 45-47: the topic of the stripped line s
Topic(s) ==
    Strip(SelectSeq(Drop(s, NumberPrefix(s)), LAMBDA ch : ch \notin {"*", HASH, BACKTICK}))

\* the loop of lines 42-48 from line i on: <<topic, line index>> pairs
RECURSIVE TopicEntries(_, _)
TopicEntries(lines, i) ==
    IF i > Len(lines) THEN <<>>
    ELSE (IF IsTopicLine(Strip(lines[i])) THEN << <<Topic(Strip(lines[i])), i>> >> ELSE <<>>)
         \o TopicEntries(lines, i + 1)

\* extract_topics(content)
ExtractTopics(text) ==
    LET entries == TopicEntries(SplitSep(text, <<NL>>, -1), 1)
    IN  [k \in 1..Len(entries) |-> entries[k][1]]

ExtractTopicsOrigin(text) ==
    LET entries == TopicEntries(SplitSep(text, <<NL>>, -1), 1)
    IN  [k \in 1..Len(entries) |-> entries[k][2]]

TopicAlphabet == {"1", ".", " ", "a", "*", NL}

TopicTexts ==
    UNION {[1..k -> TopicAlphabet] : k \in 0..MaxTopicText}
    \cup {Chars("1. a") \o <<NL>> \o Chars("2. *b*") \o <<NL>> \o Chars("c"),
          Chars(" 10.  #a") \o <<" ", BACKTICK, "b", BACKTICK>>, Chars("2024 a")}

InitTopics ==
    /\ et_pc = "call"
    /\ et_content \in TopicTexts
    /\ et_topics = <<>>
    /\ et_origin = <<>>
    /\ ps_pc = "idle"
    /\ ps_chat = <<>>
    /\ ps_stream = <<>>
    /\ content = PyString(<<>>)
    /\ pc = "idle"
    /\ outcome = "none"
    /\ lexical = NoDocument
    /\ origin = <<>>
    /\ lexical_str = NoString
    /\ rt_pc = "idle"
    /\ reparsed = ParseError
    /\ reserialized = NoString
    /\ StateManagerIdle
    /\ PostDraftIdle
    /\ ExecutorIdle

ExtractTopicsCall ==
    /\ et_pc = "call"
    /\ et_pc' = "done"
    /\ et_topics' = ExtractTopics(et_content)
    /\ et_origin' = ExtractTopicsOrigin(et_content)
    /\ UNCHANGED <<et_content, ps_pc, ps_chat, ps_stream, lexvars, rtvars, smvars, pdvars, cevars>>

SpecTopics == InitTopics /\ [][ExtractTopicsCall]_vars

----------------------------------------------------------------------------
(* process_stream and the loop of interactive (src/cli.py) *)

ChatMessage(role, text) == [role |-> role, content |-> text]

\* "".join([content.content for content in contents])
RECURSIVE Join(_)
Join(chunks) == IF chunks = <<>> THEN <<>> ELSE Head(chunks) \o Join(Tail(chunks))

\* s.lower()
LowerStr(s) == [k \in 1..Len(s) |-> Lower(s[k])]

\* a slip: any message of the chat may hold the request
IsTopicsRequestAnywhere(chat) ==
    \E k \in 1..Len(chat) : Contains(LowerStr(chat[k].content), Chars("trending topics"))

\* "trending topics" in chat.messages[-2].content.lower()
IsTopicsRequest(chat) ==
    Contains(LowerStr(chat[Len(chat) - 1].content), Chars("trending topics"))

\* the state process_stream leaves for the chat (the response appended)
\* and the joined response
StreamState(state, chat, message, now) ==
    IF IsTopicsRequest(chat) /\ ExtractTopics(message) # <<>>
    THEN AddTopicsState(AddMessageState(state, Chars("assistant"), message, now),
                        ExtractTopics(message), now + 1)
    ELSE AddMessageState(state, Chars("assistant"), message, now)

SampleRequests == {Chars("Find Trending Topics"), Chars("research a")}

SampleStreams ==
    { <<>>,
      <<Chars("1. a") \o <<NL>>, Chars("2. *b*")>>,
      <<<<"1">>, Chars(". a")>>,
      <<Chars("no topics")>>,
      <<Chars("about trending topics: none")>> }

\* a session before the first request: the StateManager is constructed,
\* the chat is new
InitStream ==
    /\ sm_file \in {NoFile, WrittenFile}
    /\ sm_state = LoadState(sm_file, 0)
    /\ sm_now = 1
    /\ sm_last = [op |-> "init", raised |-> FALSE]
    /\ sm_ret = PyNone
    /\ sm_prev = PyNone
    /\ sm_added = PairsOf(LoadState(sm_file, 0))
    /\ ps_pc = "done"
    /\ ps_chat = <<>>
    /\ ps_stream = <<>>
    /\ et_pc = "idle"
    /\ et_content = <<>>
    /\ et_topics = <<>>
    /\ et_origin = <<>>
    /\ content = PyString(<<>>)
    /\ pc = "idle"
    /\ outcome = "none"
    /\ lexical = NoDocument
    /\ origin = <<>>
    /\ lexical_str = NoString
    /\ rt_pc = "idle"
    /\ reparsed = ParseError
    /\ reserialized = NoString
    /\ PostDraftIdle
    /\ ExecutorIdle

\* lines 225-227: the request is added to the chat and to the state, and
\* the agent is invoked
UserMessage(text, stream) ==
    /\ ps_pc = "done"
    /\ sm_now + 3 <= MaxStreamClock
    /\ ps_chat' = Append(ps_chat, ChatMessage("user", text))
    /\ ps_stream' = stream
    /\ ps_pc' = "call"
    /\ IF AddMessageRaises(sm_state)
       THEN RaisedIn("add_message")
       ELSE /\ sm_state' = AddMessageState(sm_state, Chars("user"), text, sm_now)
            /\ sm_file' = SaveState(AddMessageState(sm_state, Chars("user"), text, sm_now))
            /\ sm_now' = sm_now + 1
            /\ sm_added' = Append(sm_added, <<Chars("user"), text>>)
            /\ Called("add_message", FALSE)
            /\ sm_prev' = sm_state
            /\ sm_ret' = PyNone
    /\ UNCHANGED <<et_pc, et_content, et_topics, et_origin, lexvars, rtvars, pdvars, cevars>>

\* process_stream(stream, chat)
ProcessStream ==
    /\ ps_pc = "call"
    /\ ps_pc' = "done"
    /\ ps_chat' = Append(ps_chat, ChatMessage("assistant", Join(ps_stream)))
    /\ IF AddMessageRaises(sm_state)
       THEN RaisedIn("process_stream")
       ELSE /\ sm_state' = StreamState(sm_state, ps_chat', Join(ps_stream), sm_now)
            /\ sm_file' = SaveState(StreamState(sm_state, ps_chat', Join(ps_stream), sm_now))
            /\ sm_now' = IF IsTopicsRequest(ps_chat') /\ ExtractTopics(Join(ps_stream)) # <<>>
                         THEN sm_now + 2
                         ELSE sm_now + 1
            /\ sm_added' = Append(sm_added, <<Chars("assistant"), Join(ps_stream)>>)
            /\ Called("process_stream", FALSE)
            /\ sm_prev' = sm_state
            /\ sm_ret' = PyNone
    /\ UNCHANGED <<ps_stream, et_pc, et_content, et_topics, et_origin,
                   lexvars, rtvars, pdvars, cevars>>

NextStream ==
    \/ \E text \in SampleRequests, stream \in SampleStreams : UserMessage(text, stream)
    \/ ProcessStream

SpecStream == InitStream /\ [][NextStream]_vars

----------------------------------------------------------------------------
(* Vocabulary of the properties, defined apart from the operators above *)

Returned == pc = "done" /\ outcome = "returned"

\* the children of the returned root
Children == lexical.root.children

TextOf(node) == node.children[1].text

IsHeading(node) == node.type = "heading"

IsParagraph(node) == node.type = "paragraph"

Heading(level, text) ==
    [type |-> "heading", tag |-> <<"h">> \o Decimal(level), format |-> "",
     indent |-> 0, version |-> 1,
     children |-> <<[type |-> "text", text |-> text, format |-> 0, detail |-> 0,
                     mode |-> "normal", style |-> ""]>>]

Paragraph(text) ==
    [type |-> "paragraph", format |-> "", indent |-> 0, version |-> 1,
     children |-> <<[type |-> "text", text |-> text, format |-> 0, detail |-> 0,
                     mode |-> "normal", style |-> ""]>>]

IsBlank(s) == \A i \in 1..Len(s) : s[i] \in {" ", NL, "\t", "\r"}

RECURSIVE TrimLeft(_)
TrimLeft(s) ==
    IF s # <<>> /\ IsBlank(<<s[1]>>) THEN TrimLeft(Tail(s)) ELSE s

RECURSIVE TrimRight(_)
TrimRight(s) ==
    IF s # <<>> /\ IsBlank(<<s[Len(s)]>>) THEN TrimRight(SubSeq(s, 1, Len(s) - 1)) ELSE s

\* s with leading and trailing whitespace removed
Trimmed(s) == TrimRight(TrimLeft(s))

BeginsWithHash(s) == s # <<>> /\ s[1] = HASH

\* whether s holds two consecutive line breaks
HasSeparator(s) == \E i \in 1..(Len(s) - 1) : s[i] = NL /\ s[i + 1] = NL

\* the part of s before its first line break
FirstLine(s) ==
    IF \E i \in 1..Len(s) : s[i] = NL
    THEN SubSeq(s, 1, (CHOOSE i \in 1..Len(s) : s[i] = NL /\ \A j \in 1..(i - 1) : s[j] # NL) - 1)
    ELSE s

\* the part of s after its first line break, <<>> if it has none
AfterFirstLine(s) ==
    IF \E i \in 1..Len(s) : s[i] = NL
    THEN SubSeq(s, (CHOOSE i \in 1..Len(s) : s[i] = NL /\ \A j \in 1..(i - 1) : s[j] # NL) + 1, Len(s))
    ELSE <<>>

\* the first whitespace-delimited token of a line that begins with a non-blank
FirstToken(s) ==
    IF \E i \in 1..Len(s) : IsBlank(<<s[i]>>)
    THEN SubSeq(s, 1, (CHOOSE i \in 1..Len(s) : IsBlank(<<s[i]>>) /\ \A j \in 1..(i - 1) : ~IsBlank(<<s[j]>>)) - 1)
    ELSE s

RECURSIVE LeadingHashes(_)
LeadingHashes(s) ==
    IF s # <<>> /\ s[1] = HASH THEN 1 + LeadingHashes(Tail(s)) ELSE 0

\* the lines of s
RECURSIVE LinesOf(_)
LinesOf(s) ==
    IF \E i \in 1..Len(s) : s[i] = NL
    THEN <<FirstLine(s)>> \o LinesOf(AfterFirstLine(s))
    ELSE <<s>>

\* whether t occurs in s as a run of consecutive characters
BeginsWith(s, p) == Len(s) >= Len(p) /\ \A i \in 1..Len(p) : s[i] = p[i]

OccursIn(t, s) == \E i \in 0..(Len(s) - Len(t)) : SubSeq(s, i + 1, i + Len(t)) = t

IsStrInput == content.type = "str"

\* a mapping whose 'content' key holds a string
IsContentMapping ==
    /\ content.type = "dict"
    /\ \E i \in 1..Len(content.val) :
          content.val[i][1] = KeyContent /\ content.val[i][2].type = "str"

ContentOfMapping ==
    content.val[CHOOSE i \in 1..Len(content.val) : content.val[i][1] = KeyContent][2].val

\* the trimmed block with index b of the call
Block(b) == Trimmed(Paragraphs(content)[b])

\* the indices of the children that came from block b
NodesOfBlock(b) == {k \in 1..Len(origin) : origin[k] = b}

HeadingBlocks == {b \in 1..Len(Paragraphs(content)) : BeginsWithHash(Block(b))}

----------------------------------------------------------------------------
(* C1: order of the children *)

\* the input string s is A, blank line, B, blank line, C with the first
\* delimiter at p and the second at q, and A, B, C are one block each, none
\* blank and none a heading
ThreeBlocksAt(s, p, q) ==
    /\ p + 2 <= q /\ q + 1 <= Len(s)
    /\ s[p] = NL /\ s[p + 1] = NL /\ s[q] = NL /\ s[q + 1] = NL
    /\ \A X \in {SubSeq(s, 1, p - 1), SubSeq(s, p + 2, q - 1), SubSeq(s, q + 2, Len(s))} :
          ~HasSeparator(X) /\ ~IsBlank(X) /\ ~BeginsWithHash(Trimmed(X))

\* C1: the children of the root are in the order of the blocks they come
\* from: a child never comes from an earlier block than the child before
\* it, the text of every child is taken from its own block, and an input of
\* three paragraph blocks A, B, C gives exactly
\* [Paragraph(A), Paragraph(B), Paragraph(C)].
C1_OrderPreserved ==
    Returned =>
        /\ Len(origin) = Len(Children)
        /\ \A i, j \in 1..Len(origin) : i < j => origin[i] <= origin[j]
        /\ \A k \in 1..Len(Children) :
              /\ origin[k] \in 1..Len(Paragraphs(content))
              /\ OccursIn(TextOf(Children[k]), Paragraphs(content)[origin[k]])
        /\ IsStrInput =>
              \A p, q \in 1..Len(content.val) :
                 ThreeBlocksAt(content.val, p, q) =>
                    Children = << Paragraph(Trimmed(SubSeq(content.val, 1, p - 1))),
                                  Paragraph(Trimmed(SubSeq(content.val, p + 2, q - 1))),
                                  Paragraph(Trimmed(SubSeq(content.val, q + 2, Len(content.val)))) >>

\* three paragraph blocks with different texts have been converted
C1_Witness ==
    /\ Returned /\ IsStrInput
    /\ \E p, q \in 1..Len(content.val) : ThreeBlocksAt(content.val, p, q)
    /\ Len(Children) = 3
    /\ origin = <<1, 2, 3>>
    /\ TextOf(Children[1]) # TextOf(Children[2])
    /\ TextOf(Children[2]) # TextOf(Children[3])

----------------------------------------------------------------------------
(* C2: an input of one paragraph *)

\* C2 as stated: every input string with no blank-line separator and no
\* leading '#' gives exactly one Paragraph holding the trimmed input.
C2_AsStated ==
    (Returned /\ IsStrInput /\ ~HasSeparator(content.val) /\ ~BeginsWithHash(content.val))
        => Children = <<Paragraph(Trimmed(content.val))>>

\* C2 amended: every input string with no blank-line separator that holds a
\* non-whitespace character, the first of which is not '#', gives exactly
\* one Paragraph holding the trimmed input.
C2_SingleParagraph ==
    (pc = "done" /\ IsStrInput /\ ~HasSeparator(content.val)
       /\ ~IsBlank(content.val) /\ ~BeginsWithHash(Trimmed(content.val)))
        => outcome = "returned" /\ Children = <<Paragraph(Trimmed(content.val))>>

\* a one-paragraph input with whitespace around it, a line break and a '#'
\* inside it has been converted
C2_Witness ==
    /\ Returned /\ IsStrInput /\ ~HasSeparator(content.val)
    /\ ~IsBlank(content.val) /\ ~BeginsWithHash(Trimmed(content.val))
    /\ Trimmed(content.val) # content.val
    /\ \E i, j \in 1..Len(Trimmed(content.val)) :
          Trimmed(content.val)[i] = NL /\ Trimmed(content.val)[j] = HASH
    /\ Len(Children) = 1

----------------------------------------------------------------------------
(* C3: heading blocks *)

\* C3: every block whose first line starts with '#' yields exactly one
\* Heading; the trimmed remainder of the block follows it at once as a
\* Paragraph iff that remainder is not blank, and otherwise the block yields
\* nothing else, so the next node comes from the next block.
C3_HeadingBlock ==
    Returned =>
        /\ \A b \in HeadingBlocks :
              LET ks == NodesOfBlock(b)
                  rest == Trimmed(AfterFirstLine(Block(b)))
              IN  /\ ks # {}
                  /\ LET k0 == CHOOSE k \in ks : \A j \in ks : k <= j
                     IN  /\ IsHeading(Children[k0])
                         /\ Cardinality({k \in ks : IsHeading(Children[k])}) = 1
                         /\ IF rest # <<>>
                            THEN ks = {k0, k0 + 1} /\ Children[k0 + 1] = Paragraph(rest)
                            ELSE ks = {k0}
        /\ (IsStrInput /\ content.val = <<HASH, " ", "a", NL, NL, "a">>)
              => Children = <<Heading(1, <<"a">>), Paragraph(<<"a">>)>>
        /\ (IsStrInput /\ content.val = <<HASH, HASH, " ", "a", NL, "a">>)
              => Children = <<Heading(2, <<"a">>), Paragraph(<<"a">>)>>

\* a heading block with a remainder, followed by another block, has been
\* converted
C3_Witness ==
    /\ Returned
    /\ \E b \in HeadingBlocks :
          /\ Trimmed(AfterFirstLine(Block(b))) # <<>>
          /\ Cardinality(NodesOfBlock(b)) = 2
          /\ NodesOfBlock(b + 1) # {}

----------------------------------------------------------------------------
(* C4, C5: the level of a heading *)

\* C4: the tag of every Heading node is one of h1 .. h6.
C4_LevelInRange ==
    Returned =>
        \A k \in 1..Len(Children) :
           IsHeading(Children[k]) =>
              \E level \in 1..6 : Children[k].tag = <<"h">> \o Decimal(level)

\* C5: the level of the Heading of a block is the number of leading '#'
\* characters of the first whitespace-delimited token of the block's first
\* line.
C5_LevelCountsHashes ==
    Returned =>
        \A k \in 1..Len(Children) :
           IsHeading(Children[k]) =>
              Children[k].tag =
                 <<"h">> \o Decimal(LeadingHashes(FirstToken(FirstLine(Block(origin[k])))))

----------------------------------------------------------------------------
(* C6: which lines become headings *)

\* the indices of the lines of s that begin with '#'
HashLines(s) == {i \in 1..Len(LinesOf(s)) : BeginsWithHash(LinesOf(s)[i])}

HeadingChildren == {k \in 1..Len(Children) : IsHeading(Children[k])}

\* C6 as stated: every line of the input that begins with '#' is converted
\* into a Heading node of its own, wherever the line occurs.
C6_AsStated ==
    (Returned /\ IsStrInput) =>
        /\ Cardinality(HeadingChildren) >= Cardinality(HashLines(content.val))
        /\ \A i \in HashLines(content.val) :
              \E k \in HeadingChildren :
                 OccursIn(TextOf(Children[k]), LinesOf(content.val)[i])

\* C6 amended: a Heading node is made for exactly the blocks whose trimmed
\* text begins with '#', one for each, from the block's first line; a line
\* that begins with '#' but is not the first line of its block makes no
\* Heading and stays in the text of the Paragraph made from its block.
C6_HeadingPerBlock ==
    Returned =>
        /\ Cardinality(HeadingChildren) = Cardinality(HeadingBlocks)
        /\ \A k \in HeadingChildren :
              /\ origin[k] \in HeadingBlocks
              /\ OccursIn(TextOf(Children[k]), FirstLine(Block(origin[k])))
        /\ \A b \in 1..Len(Paragraphs(content)) :
              \A i \in HashLines(Block(b)) :
                 i > 1 =>
                    \E k \in NodesOfBlock(b) :
                       /\ IsParagraph(Children[k])
                       /\ OccursIn(LinesOf(Block(b))[i], TextOf(Children[k]))

\* a block with a '#' line after its first line, and a heading block, have
\* been converted
C6_Witness ==
    /\ Returned
    /\ HeadingChildren # {}
    /\ \E b \in 1..Len(Paragraphs(content)) :
          /\ b \notin HeadingBlocks
          /\ \E i \in HashLines(Block(b)) : i > 1

----------------------------------------------------------------------------
(* C7: what delimits a block *)

\* whether s has a line, after its first and before its last, that is empty
\* or holds only whitespace
SpansBlankLine(s) ==
    \E i, j \in 1..Len(s) :
       i < j /\ s[i] = NL /\ s[j] = NL /\ IsBlank(SubSeq(s, i, j))

\* C7 as stated: no text of a Paragraph or Heading node spans a blank line,
\* a blank line being a line that is empty or holds only whitespace.
C7_AsStated ==
    Returned => \A k \in 1..Len(Children) : ~SpansBlankLine(TextOf(Children[k]))

\* C7 amended: blocks are delimited by the two-character sequence of two
\* line breaks, that is by empty lines only: no block and no text of a
\* Paragraph or Heading node holds two consecutive line breaks, and an
\* input string whose trimmed text holds no such sequence is one block, so
\* a line that holds only whitespace does not end a block.
C7_NoEmptyLineInside ==
    Returned =>
        /\ \A k \in 1..Len(Children) : ~HasSeparator(TextOf(Children[k]))
        /\ \A b \in 1..Len(Paragraphs(content)) : ~HasSeparator(Paragraphs(content)[b])
        /\ (IsStrInput /\ ~HasSeparator(Trimmed(content.val)))
              => \A k \in 1..Len(origin) : origin[k] = 1

\* an input with a delimiter and a text that spans a whitespace-only line
\* have been converted
C7_Witness ==
    /\ Returned /\ IsStrInput
    /\ HasSeparator(Trimmed(content.val))
    /\ Len(Children) >= 2
    /\ \E k \in 1..Len(Children) : SpansBlankLine(TextOf(Children[k]))

----------------------------------------------------------------------------
(* C8: blank input *)

\* C8: an input that holds only whitespace (the empty string included)
\* gives a root with no children.
C8_BlankInputNoChildren ==
    /\ (pc = "done" /\ IsStrInput /\ IsBlank(content.val))
          => outcome = "returned" /\ Children = <<>>
    /\ (pc = "done" /\ IsContentMapping /\ IsBlank(ContentOfMapping))
          => outcome = "returned" /\ Children = <<>>

\* a blank input of several blank blocks has been converted
C8_Witness ==
    /\ Returned /\ IsStrInput
    /\ IsBlank(content.val) /\ HasSeparator(content.val)
    /\ \E i \in 1..Len(content.val) : content.val[i] = " "
    /\ Children = <<>>

----------------------------------------------------------------------------
(* C9: a mapping with a 'content' key *)

\* C9: called with a mapping whose 'content' key holds the string s, the
\* call ends as the call with s itself ends and returns the same document,
\* whatever other keys the mapping holds.
C9_MappingAsString ==
    (pc = "done" /\ IsContentMapping) =>
        /\ (outcome = "raised") = Raises(PyString(ContentOfMapping))
        /\ outcome = "returned" =>
              /\ lexical = ContentToLexicalResult(PyString(ContentOfMapping))
              /\ origin = ContentToLexicalOrigin(PyString(ContentOfMapping))

\* a mapping with another key before 'content' has been converted
C9_Witness ==
    /\ Returned /\ IsContentMapping
    /\ Len(content.val) = 2
    /\ content.val[1][1] = KeyTopic
    /\ content.val[1][2].val # ContentOfMapping
    /\ Len(Children) = 2

----------------------------------------------------------------------------
(* C10: totality *)

\* C10: for every string and every mapping with a 'content' key the call
\* returns a document and raises nothing.
C10_Total ==
    (pc = "done" /\ (IsStrInput \/ (content.type = "dict" /\ HasKey(content, KeyContent))))
        => /\ outcome = "returned"
           /\ lexical.root.type = "root"
           /\ \A k \in 1..Len(Children) : IsHeading(Children[k]) \/ IsParagraph(Children[k])

\* a block made only of '#' characters has been converted into a heading
\* with no text
C10_Witness ==
    /\ Returned /\ IsStrInput
    /\ content.val # <<>>
    /\ \A i \in 1..Len(content.val) : content.val[i] = HASH
    /\ Len(Children) = 1
    /\ IsHeading(Children[1]) /\ TextOf(Children[1]) = <<>>

----------------------------------------------------------------------------
(* C15: the text of a heading *)

\* C15 as stated: the text of every Heading is the first line of its block
\* with all leading '#' and all leading and trailing whitespace removed, and
\* it never begins with '#' or with whitespace.
C15_AsStated ==
    Returned =>
        \A k \in HeadingChildren :
           LET text == TextOf(Children[k])
           IN  /\ text = Trimmed(SubSeq(FirstLine(Block(origin[k])),
                                        LeadingHashes(FirstLine(Block(origin[k]))) + 1,
                                        Len(FirstLine(Block(origin[k])))))
               /\ text # <<>> => (text[1] # HASH /\ ~IsBlank(<<text[1]>>))

\* C15 amended: the text of every Heading is the first line of its block
\* with the leading run of '#' removed and then the leading and trailing
\* whitespace removed; it never begins or ends with whitespace, and it
\* begins with '#' exactly when a '#' is the first non-blank character
\* after the whitespace that follows the leading run of '#'.
C15_HeadingText ==
    Returned =>
        \A k \in HeadingChildren :
           LET text == TextOf(Children[k])
               line == FirstLine(Block(origin[k]))
               afterRun == SubSeq(line, LeadingHashes(line) + 1, Len(line))
           IN  /\ text = Trimmed(afterRun)
               /\ text # <<>> => (~IsBlank(<<text[1]>>) /\ ~IsBlank(<<text[Len(text)]>>))
               /\ BeginsWithHash(text) <=>
                     (afterRun # <<>> /\ IsBlank(<<afterRun[1]>>)
                        /\ BeginsWithHash(TrimLeft(afterRun)))

\* a heading whose text begins with '#' and goes on after it has been
\* converted from a line with whitespace after its leading '#'
C15_Witness ==
    /\ Returned
    /\ \E k \in HeadingChildren :
          /\ BeginsWithHash(TextOf(Children[k]))
          /\ Len(TextOf(Children[k])) >= 2
          /\ Len(FirstLine(Block(origin[k]))) > 1 + Len(TextOf(Children[k]))

----------------------------------------------------------------------------
(* C16: blank blocks and the number of blank lines *)

\* s with one more line break put in at position i
WithLineBreakAt(s, i) == SubSeq(s, 1, i - 1) \o <<NL>> \o SubSeq(s, i, Len(s))

\* the positions of s that lie in a run of two or more line breaks
InLongRun(s) ==
    {i \in 1..Len(s) :
        /\ s[i] = NL
        /\ (i > 1 /\ s[i - 1] = NL) \/ (i < Len(s) /\ s[i + 1] = NL)}

\* the inputs made from the string s by lengthening a run of two or more
\* line breaks or by adding a blank line at its start or at its end
MoreBlankLines(s) ==
    {WithLineBreakAt(s, i) : i \in InLongRun(s)}
    \cup {<<NL>> \o s, <<" ", NL>> \o s, s \o <<NL>>, s \o <<NL, " ">>, s \o <<NL, NL>>}

\* C16: a block that is empty after trimming gives no node, and the
\* document does not change when a run of two or more line breaks is
\* lengthened or blank lines are added at the start or the end of the input.
C16_BlankLinesIgnored ==
    (pc = "done" /\ IsStrInput) =>
        /\ outcome = "returned"
        /\ \A b \in 1..Len(Paragraphs(content)) :
              IsBlank(Paragraphs(content)[b]) => NodesOfBlock(b) = {}
        /\ \A t \in MoreBlankLines(content.val) :
              /\ ~Raises(PyString(t))
              /\ ContentToLexicalResult(PyString(t)) = lexical

\* an input with a run of three line breaks between two blocks, one of
\* them a heading block, has been converted
C16_Witness ==
    /\ Returned /\ IsStrInput
    /\ \E i \in 2..(Len(content.val) - 3) :
          /\ ~IsBlank(<<content.val[i - 1]>>)
          /\ content.val[i] = NL /\ content.val[i + 1] = NL /\ content.val[i + 2] = NL
          /\ ~IsBlank(<<content.val[i + 3]>>)
    /\ Len(Children) = 2
    /\ HeadingChildren # {}

----------------------------------------------------------------------------
(* C11: the returned string parsed and serialized again *)

\* C11: the returned string parses as JSON, and the parsed value serialized
\* again is the returned string, character for character; the parsed value
\* has the nodes, keys and texts of the document in their order.
C11_ReserializeIdentical ==
    /\ rt_pc # "idle" => reparsed.ok /\ reparsed.v = LexicalDict(lexical)
    /\ rt_pc = "dumped" => reserialized = lexical_str
    /\ Returned => Len(lexical_str) > 0

\* a document whose texts hold a quote, a backslash or a line break has
\* been parsed and serialized again
C11_Witness ==
    /\ rt_pc = "dumped"
    /\ Len(Children) >= 1
    /\ \E i, j \in 1..Len(TextOf(Children[1])) :
          /\ TextOf(Children[1])[i] \in {QUOTE, BACKSLASH}
          /\ TextOf(Children[1])[j] = NL

----------------------------------------------------------------------------
(* C12: the state file after a mutation *)

Mutators == {"add_message", "add_topics", "clear_history"}

MutatorReturned == sm_last.op \in Mutators /\ ~sm_last.raised

\* the value stored under key in the items of a dict, PyNone if it has none
Stored(items, key) ==
    IF \E k \in 1..Len(items) : items[k][1] = key
    THEN items[CHOOSE k \in 1..Len(items) : items[k][1] = key][2]
    ELSE PyNone

\* C12: after add_message, add_topics or clear_history has returned, the
\* state file exists, is the whole in-memory state written as JSON, and a
\* StateManager constructed on it loads the same chat history, topics and
\* last_updated.
C12_FileHoldsState ==
    MutatorReturned =>
        /\ sm_file.exists
        /\ Loads(sm_file.text).ok
        /\ Loads(sm_file.text).v = sm_state
        /\ LoadState(sm_file, sm_now) = sm_state
        /\ \A key \in {KeyChatHistory, KeyTopics, KeyLastUpdated} :
              /\ Stored(LoadState(sm_file, sm_now).val, key) = Stored(sm_state.val, key)
              /\ Stored(sm_state.val, key) # PyNone

\* a message with a quote and a line break has been added after topics
\* were stored, and the file has been written
C12_Witness ==
    /\ sm_last = [op |-> "add_message", raised |-> FALSE]
    /\ Len(Stored(sm_state.val, KeyChatHistory).val) >= 2
    /\ Len(Stored(sm_state.val, KeyTopics).val) >= 1
    /\ \E k \in 1..Len(sm_added) : sm_added[k][2] = <<QUOTE, NL>>
    /\ sm_file.exists

----------------------------------------------------------------------------
(* C20: what the calls change and what get_chat_history returns *)

\* the <<role, content>> pairs of a list of messages
RoleAndContent(messages) ==
    [k \in 1..Len(messages) |->
        <<Stored(messages[k].val, Chars("role")).val,
          Stored(messages[k].val, Chars("content")).val>>]

LastReturned(op) == sm_last = [op |-> op, raised |-> FALSE]

\* C20: get_chat_history returns exactly the messages added since the most
\* recent clear_history (after the loaded ones if there was no clear), in
\* call order with role and content unchanged; add_topics leaves the chat
\* history as it was, and add_message and clear_history leave topics and
\* last_updated as they were.
C20_HistoryAndFrame ==
    /\ LastReturned("get_chat_history") =>
          /\ sm_ret.type = "list"
          /\ RoleAndContent(sm_ret.val) = sm_added
    /\ RoleAndContent(Stored(sm_state.val, KeyChatHistory).val) = sm_added
    /\ LastReturned("add_topics") =>
          Stored(sm_state.val, KeyChatHistory) = Stored(sm_prev.val, KeyChatHistory)
    /\ LastReturned("add_message") \/ LastReturned("clear_history") =>
          /\ Stored(sm_state.val, KeyTopics) = Stored(sm_prev.val, KeyTopics)
          /\ Stored(sm_state.val, KeyLastUpdated) = Stored(sm_prev.val, KeyLastUpdated)

\* the manager loaded a file with one message and the topic "b", the
\* history was cleared, two messages of different roles were added, and
\* get_chat_history has returned them
C20_Witness ==
    /\ LastReturned("get_chat_history")
    /\ Len(sm_ret.val) = 2
    /\ sm_added[1][1] # sm_added[2][1]
    /\ sm_added[1][2] # sm_added[2][2]
    /\ \A k \in 1..2 : sm_added[k][2] # <<"a", NL, "b">>
    /\ Stored(sm_state.val, KeyTopics) = PyList(<<PyString(<<"b">>)>>)

----------------------------------------------------------------------------
(* C13, C17: how post_draft ends *)

PostDraftDone == pd_pc = "done"

\* what went wrong in the call, read off its inputs
TokenFails ==
    LET key == pd_env.api_key
        colons == {i \in 1..Len(key) : key[i] = ":"}
    IN  \/ Cardinality(colons) # 1
        \/ \E i \in colons :
              \/ (Len(key) - i) % 2 = 1
              \/ \E j \in (i + 1)..Len(key) : key[j] \notin HexDigits

TitleFails == pd_args.title.type # "str"

RequestFails == pd_env.http.kind = "raises"

BodyNotJson ==
    /\ pd_env.http.kind = "response"
    /\ pd_env.http.text \notin {<<>>, <<"{", "}">>}

SomethingFails == TokenFails \/ TitleFails \/ RequestFails \/ BodyNotJson

\* C13: post_draft never propagates an exception: whenever token
\* generation, the conversion, the HTTP request or the decoding of the
\* response fails, it returns a message that begins with
\* 'Error creating draft: ', and it returns a nonempty string in every case.
C13_NoException ==
    PostDraftDone =>
        /\ ~pd_out.raised
        /\ pd_out.result # <<>>
        /\ SomethingFails =>
              BeginsWith(pd_out.result,
                         <<"E", "r", "r", "o", "r", " ", "c", "r", "e", "a", "t", "i", "n", "g",
                           " ", "d", "r", "a", "f", "t", ":", " ">>)

\* the API key has no hex secret and the call has returned its message
C13_Witness ==
    /\ PostDraftDone
    /\ TokenFails
    /\ ~pd_out.raised
    /\ ~pd_out.sent
    /\ Len(pd_out.result) > 22

Answered == PostDraftDone /\ pd_out.sent /\ pd_env.http.kind = "response"

SuccessMessage(title) ==
    <<"S", "u", "c", "c", "e", "s", "s", "f", "u", "l", "l", "y", " ", "c", "r", "e", "a",
      "t", "e", "d", " ", "d", "r", "a", "f", "t", ":", " ">> \o title

FailurePrefix ==
    <<"F", "a", "i", "l", "e", "d", " ", "t", "o", " ", "c", "r", "e", "a", "t", "e", " ",
      "d", "r", "a", "f", "t">>

StatusDigits(status) ==
    CASE status = 200 -> <<"2", "0", "0">>
      [] status = 201 -> <<"2", "0", "1">>
      [] status = 401 -> <<"4", "0", "1">>
      [] status = 502 -> <<"5", "0", "2">>

\* C17: when the Ghost API answers with status 201 post_draft returns
\* 'Successfully created draft: <title>'; for every other status it returns
\* a failure message that contains the status code; the success message is
\* returned in no other case.
C17_StatusDecidesResult ==
    /\ Answered /\ pd_env.http.status = 201 =>
          pd_out.result = SuccessMessage(pd_args.title.val)
    /\ Answered /\ pd_env.http.status # 201 =>
          /\ BeginsWith(pd_out.result, FailurePrefix)
          /\ OccursIn(StatusDigits(pd_env.http.status), pd_out.result)
    /\ PostDraftDone /\ BeginsWith(pd_out.result, SuccessMessage(<<>>)) =>
          Answered /\ pd_env.http.status = 201

----------------------------------------------------------------------------
(* C14, C18, C19: execute_code *)

ExecuteCodeDone == ce_pc = "done"

\* C14: execute_code never propagates an exception: for every network
\* error, HTTP error status and malformed Judge0 response it returns a
\* nonempty result string, and so does execute_python_code around it.
C14_NoException ==
    ExecuteCodeDone =>
        /\ ~ce_out.raised
        /\ ce_out.result # <<>>
        /\ ce_out.plugin # <<>>

Unsafe(code) ==
    \/ OccursIn(<<"o", "s", ".">>, code)
    \/ OccursIn(<<"s", "y", "s", ".">>, code)
    \/ OccursIn(<<"s", "u", "b", "p", "r", "o", "c", "e", "s", "s", ".">>, code)

\* C18: for source code that contains 'os.', 'subprocess.' or 'sys.' the
\* call returns 'Code failed safety validation' and no request is sent to
\* Judge0; a request has been sent only for code without these substrings.
C18_UnsafeCodeNotSent ==
    /\ Unsafe(ce_code) => ce_sent = <<>>
    /\ Unsafe(ce_code) /\ ExecuteCodeDone =>
          /\ ~ce_out.raised
          /\ ce_out.result = <<"C", "o", "d", "e", " ", "f", "a", "i", "l", "e", "d", " ",
                               "s", "a", "f", "e", "t", "y", " ",
                               "v", "a", "l", "i", "d", "a", "t", "i", "o", "n">>
    /\ ce_sent # <<>> => ~Unsafe(ce_code)

\* code that holds 'os.' inside a longer name has been refused
C18_Witness ==
    /\ ExecuteCodeDone
    /\ ce_code = <<"p", "o", "s", ".", "x">>
    /\ ce_sent = <<>>
    /\ Len(ce_out.result) = 29

NoOutputMessage ==
    <<"C", "o", "d", "e", " ", "e", "x", "e", "c", "u", "t", "e", "d", " ",
      "s", "u", "c", "c", "e", "s", "s", "f", "u", "l", "l", "y", " ",
      "(", "n", "o", " ", "o", "u", "t", "p", "u", "t", ")">>

ExecutionErrorPrefix ==
    <<"E", "x", "e", "c", "u", "t", "i", "o", "n", " ", "e", "r", "r", "o", "r", ":", " ">>

\* the last status response reported this status
Reported(id) == ce_seen = id

JudgeFinished == ce_pc = "poll" /\ ce_judge.id \notin {1, 2}

\* the call goes on polling after a response with status 1 or 2, and has
\* returned after a response with another status: stdout, or the no-output
\* message when stdout is empty or null, exactly for status 3, and an
\* 'Execution error' message otherwise
C19_ReturnsAtFirstFinalStatus ==
    /\ Reported(1) \/ Reported(2) => ce_pc = "poll" /\ ce_polls >= 1
    /\ Reported(3) =>
          /\ ExecuteCodeDone /\ ~ce_out.raised
          /\ ce_out.result = IF ce_judge.stdout \in {PyNone, PyString(<<>>)}
                             THEN NoOutputMessage
                             ELSE ce_judge.stdout.val
    /\ ce_seen > 3 =>
          /\ ExecuteCodeDone /\ ~ce_out.raised
          /\ BeginsWith(ce_out.result, ExecutionErrorPrefix)
    /\ ExecuteCodeDone /\ ~ce_out.raised /\ BeginsWith(ce_out.result, ExecutionErrorPrefix) =>
          ce_seen > 3

\* C19: after a submission is created execute_code polls while Judge0
\* reports status 1 or 2 and returns at the first other status, with stdout
\* (or the no-output message) exactly when it is 3 and an 'Execution error'
\* message otherwise; once the submission has a status other than 1 or 2,
\* the call eventually ends.
C19_PollsUntilFinished ==
    /\ []C19_ReturnsAtFirstFinalStatus
    /\ JudgeFinished ~> ExecuteCodeDone

\* the submission was found in the queue and processing, then accepted
\* with output, which the call has returned
C19_Witness ==
    /\ ExecuteCodeDone
    /\ Reported(3)
    /\ ce_polls = 2
    /\ ce_out.result = <<"1", NL>>
    /\ Len(ce_sent) = 4

----------------------------------------------------------------------------
(* C23: the state a StateManager is constructed with *)

HasEntry(state, key) ==
    /\ state.type = "dict"
    /\ \E k \in 1..Len(state.val) : state.val[k][1] = key

\* C23: whatever the state file holds, the constructed state has
\* 'chat_history' and 'topics' entries, and add_message, get_chat_history,
\* get_topics and clear_history complete without error.
C23_ConstructedStateUsable ==
    /\ sm_last.op = "init" =>
          /\ HasEntry(sm_state, <<"c", "h", "a", "t", "_", "h", "i", "s", "t", "o", "r", "y">>)
          /\ HasEntry(sm_state, <<"t", "o", "p", "i", "c", "s">>)
    /\ sm_last.op \in {"add_message", "get_chat_history", "get_topics", "clear_history"} =>
          ~sm_last.raised

----------------------------------------------------------------------------
(* C21: the topics extract_topics returns *)

RECURSIVE LeadingDigits(_)
LeadingDigits(s) ==
    IF s # <<>> /\ s[1] \in {"0", "1", "2", "3", "4", "5", "6", "7", "8", "9"}
    THEN 1 + LeadingDigits(Tail(s))
    ELSE 0

\* what follows the number, the dot and the whitespace in the trimmed line t
TextAfterNumber(t) == TrimLeft(SubSeq(t, LeadingDigits(t) + 2, Len(t)))

\* the trimmed line t starts with a number followed by a dot and
\* whitespace and then text
IsNumbered(t) ==
    /\ LeadingDigits(t) >= 1
    /\ Len(t) >= LeadingDigits(t) + 3
    /\ t[LeadingDigits(t) + 1] = "."
    /\ IsBlank(<<t[LeadingDigits(t) + 2]>>)
    /\ TextAfterNumber(t) # <<>>

WithoutMarkup(s) == SelectSeq(s, LAMBDA ch : ch \notin {"*", "#", BACKTICK})

NumberedLines(text) ==
    {i \in 1..Len(LinesOf(text)) : IsNumbered(Trimmed(LinesOf(text)[i]))}

\* C21: extract_topics returns, in input order, exactly one topic for each
\* line that after trimming starts with a number followed by a dot and
\* whitespace and then text, and nothing for any other line; each topic is
\* that text with every '*', '#' and grave accent removed.
C21_OneTopicPerNumberedLine ==
    et_pc = "done" =>
        /\ Len(et_topics) = Cardinality(NumberedLines(et_content))
        /\ \A k \in 1..Len(et_origin) : et_origin[k] \in NumberedLines(et_content)
        /\ \A k \in 1..(Len(et_origin) - 1) : et_origin[k] < et_origin[k + 1]
        /\ \A k \in 1..Len(et_topics) :
              et_origin[k] \in NumberedLines(et_content) =>
                  et_topics[k] =
                      WithoutMarkup(TextAfterNumber(Trimmed(LinesOf(et_content)[et_origin[k]])))

----------------------------------------------------------------------------
(* C22: when process_stream replaces the stored topics *)

\* the message before the response that process_stream appended
RequestMessage == ps_chat[Len(ps_chat) - 1]

ResponseText == ps_chat[Len(ps_chat)].content

AskedForTopics ==
    /\ RequestMessage.role = "user"
    /\ OccursIn(<<"t", "r", "e", "n", "d", "i", "n", "g", " ", "t", "o", "p", "i", "c", "s">>,
                LowerStr(RequestMessage.content))

FoundTopics == ExtractTopics(ResponseText) # <<>>

\* C22: process_stream replaces the stored topics only when the user
\* message just before the response contains 'trending topics' in any case
\* and extract_topics finds a topic in the response, and then it stores the
\* topics found; in every other case topics and last_updated stay as they
\* were.
C22_TopicsReplacedOnlyOnRequest ==
    LastReturned("process_stream") =>
        /\ AskedForTopics /\ FoundTopics =>
              Stored(sm_state.val, KeyTopics).val
                  = [k \in 1..Len(ExtractTopics(ResponseText)) |->
                        PyString(ExtractTopics(ResponseText)[k])]
        /\ ~(AskedForTopics /\ FoundTopics) =>
              /\ Stored(sm_state.val, KeyTopics) = Stored(sm_prev.val, KeyTopics)
              /\ Stored(sm_state.val, KeyLastUpdated) = Stored(sm_prev.val, KeyLastUpdated)

\* the second request of a session asked for trending topics, the response
\* listed two, and they have replaced the stored ones
C22_Witness ==
    /\ LastReturned("process_stream")
    /\ Len(ps_chat) = 4
    /\ AskedForTopics /\ FoundTopics
    /\ ~OccursIn(<<"t", "r", "e", "n", "d", "i", "n", "g">>, LowerStr(ps_chat[1].content))
    /\ Len(Stored(sm_state.val, KeyTopics).val) = 2
    /\ Stored(sm_state.val, KeyTopics) # Stored(sm_prev.val, KeyTopics)
    /\ Stored(sm_state.val, KeyLastUpdated) # Stored(sm_prev.val, KeyLastUpdated)

=============================================================================
